---- MODULE Spec2Model ----
(***************************************************************************)
(* Model of the NovaSearch indexing daemon's index store                   *)
(* (daemon/src/database.rs, daemon/src/models.rs) and of the SQLite        *)
(* statements it issues.                                                   *)
(*                                                                         *)
(* Strings are sequences of one-character strings; a path is a sequence    *)
(* of components, each a string.  Times held in a FileEntry are            *)
(* milliseconds relative to the Unix epoch (negative before it); times in  *)
(* the store are whole seconds.                                            *)
(***************************************************************************)
EXTENDS Integers, Sequences, FiniteSets, TLC

VARIABLES
    files,        \* committed rows of table files
    usage,        \* committed rows of table usage_stats
    seq,          \* sqlite_sequence value of table files (AUTOINCREMENT)
    foreign_keys, \* whether the connection enforces foreign keys
    otherLock,    \* lock held on the database file by another connection
    otherWrote,   \* the other connection committed since the current call began
    pc,           \* position of execute_batch: idle, try, ops, sleep, done
    ops,          \* operations of the running execute_batch
    idx,          \* index of the next operation inside try_execute_batch
    attempt,      \* loop variable of execute_batch
    delay_ms,     \* local delay_ms of execute_batch
    waits,        \* durations slept so far by the running execute_batch
    errs,         \* outcome of each attempt of the running execute_batch
    tx,           \* working copy of the open transaction
    txLock,       \* the open transaction holds the write lock
    last,         \* last completed mutating call: operation, argument, result
    pre,          \* the store as it was when that call began
    qres,         \* last query_files call since then: query, limit, rows
    pending_events,  \* EventProcessor.pending_events: entries (key, event, timestamp)
    operation_queue, \* EventProcessor.operation_queue
    now,          \* the monotonic clock (Instant::now()), in milliseconds
    fs,           \* the filesystem: what is found at each path
    plast,        \* last completed call on the event processor: operation, argument, result
    ppre,         \* the event processor as it was when that call began
    burst,        \* per key: the last event added since the key was last free, and
                  \* whether all events since then were less than the debounce apart
    channel,      \* events sent by the watcher and not yet received by the daemon
    running,      \* the daemon's running flag
    mainpc,       \* position of main (Commands::Start): load, handler, new, scan,
                  \* index, watch, top, select, left, done, failed
    dlast,        \* last step main has made: the operations it emitted or
                  \* submitted, the queue before it, and whether it failed
    arrived,      \* number of events the watcher has sent
    committed,    \* operations the daemon has committed to the store, in order
    schema,       \* the persisted schema: objects of sqlite_master and the version row
    osteps,       \* statements the running Database::open has still to execute
    olast,        \* result of the last Database::open and number of successful opens
    schema0,      \* the persisted schema and rows before the first open
    scanned,      \* the last call on the scanner: root, exclude patterns, what
                  \* the walk yielded
    wlast         \* the last call on the watcher: the raw notification, the
                  \* exclude patterns, the event made of it, the channel before

vars == << files, usage, seq, foreign_keys, otherLock, otherWrote, pc, ops, idx,
           attempt, delay_ms, waits, errs, tx, txLock, last, pre, qres,
           pending_events, operation_queue, now, fs, plast, ppre, burst,
           channel, running, mainpc, dlast, arrived, committed, schema, osteps, olast, schema0,
           scanned, wlast >>

storeVars == << files, usage, seq >>
batchVars == << pc, ops, idx, attempt, delay_ms, waits, errs, tx, txLock >>
connVars == << foreign_keys, otherLock, otherWrote, batchVars, last, pre, qres >>
procVars == << pending_events, operation_queue, now, fs, plast, ppre, burst >>
daemonVars == << channel, running, mainpc, dlast, arrived, committed >>
openVars == << schema, osteps, olast, schema0 >>
edgeVars == << scanned, wlast >>
nonStoreVars == << procVars, daemonVars, openVars, edgeVars >>
nonProcVars == << storeVars, connVars, daemonVars, openVars, edgeVars >>

----------------------------------------------------------------------------
(* Bounds of the model *)

\* largest value sqlite_sequence may take; statements that would pass it are not issued
MaxId == 4
\* width in bits of the modelled size field (u64 and i64 in the source)
SizeBits == 4

----------------------------------------------------------------------------
(* Characters and strings *)

Chars == {"%", ".", "1", "A", "B", "_", "a", "b", "o", "t", "x", "<FF>", "<FFFD>"}

\* byte value of a character ("<FF>" is a byte that is not valid UTF-8,
\* "<FFFD>" the replacement character, whose first UTF-8 byte is 239)
Ord(c) ==
    CASE c = "%" -> 37   [] c = "." -> 46   [] c = "1" -> 49
      [] c = "A" -> 65   [] c = "B" -> 66   [] c = "_" -> 95
      [] c = "a" -> 97   [] c = "b" -> 98   [] c = "o" -> 111
      [] c = "t" -> 116  [] c = "x" -> 120
      [] c = "<FF>" -> 255 [] c = "<FFFD>" -> 239

\* SQLite folds only the ASCII upper-case letters (LIKE and COLLATE NOCASE)
Fold(c) == IF Ord(c) >= 65 /\ Ord(c) <= 90 THEN Ord(c) + 32 ELSE Ord(c)

Min(a, b) == IF a <= b THEN a ELSE b

\* comparison under COLLATE NOCASE: negative, zero or positive
NoCaseCmp(a, b) ==
    LET n == Min(Len(a), Len(b))
        d == {i \in 1..n : Fold(a[i]) # Fold(b[i])}
    IN  IF d = {} THEN Len(a) - Len(b)
        ELSE LET k == CHOOSE i \in d : \A j \in d : i <= j
             IN  Fold(a[k]) - Fold(b[k])

\* the SQL operator  s LIKE p  with no ESCAPE clause
RECURSIVE Like(_, _)
Like(p, s) ==
    IF p = << >> THEN s = << >>
    ELSE IF Head(p) = "%"
         THEN Like(Tail(p), s) \/ (s # << >> /\ Like(p, Tail(s)))
         ELSE /\ s # << >>
              /\ (Head(p) = "_" \/ Fold(Head(p)) = Fold(Head(s)))
              /\ Like(Tail(p), Tail(s))

\* String::to_string_lossy on the characters of one component
LossyStr(s) == [i \in 1..Len(s) |-> IF s[i] = "<FF>" THEN "<FFFD>" ELSE s[i]]

\* Path::to_string_lossy().to_string()
to_string_lossy(p) == [i \in 1..Len(p) |-> LossyStr(p[i])]

ValidUtf8(s) == \A i \in 1..Len(s) : s[i] # "<FF>"

\* to.file_name().and_then(|n| n.to_str()).unwrap_or("")
file_name(p) ==
    IF Len(p) = 0 THEN << >>
    ELSE IF ValidUtf8(p[Len(p)]) THEN p[Len(p)] ELSE << >>

----------------------------------------------------------------------------
(* models.rs and the timestamp conversions *)

FileTypes == {"Regular", "Directory", "Symlink", "Other"}

as_str(t) ==
    CASE t = "Regular" -> "regular" [] t = "Directory" -> "directory"
      [] t = "Symlink" -> "symlink" [] t = "Other" -> "other"

from_str(s) ==
    IF s = "regular" THEN "Regular"
    ELSE IF s = "directory" THEN "Directory"
    ELSE IF s = "symlink" THEN "Symlink"
    ELSE "Other"

\* duration_since(UNIX_EPOCH).unwrap_or(0).as_secs()
system_time_to_timestamp(ms) == IF ms < 0 THEN 0 ELSE ms \div 1000

\* variant: the stored seconds are taken for milliseconds
TimestampAsMillis(ts) == ts

\* UNIX_EPOCH + Duration::from_secs(timestamp)
timestamp_to_system_time(ts) == ts * 1000

\* entry.size as i64, at the modelled width
SizeAsI64(s) == IF s >= 2 ^ (SizeBits - 1) THEN s - 2 ^ SizeBits ELSE s

\* row.get::<_, i64>(3)? as u64, at the modelled width
SizeAsU64(i) == IF i < 0 THEN i + 2 ^ SizeBits ELSE i

FileEntry(filename, path, size, modified_time, file_type) ==
    [filename |-> filename, path |-> path, size |-> size,
     modified_time |-> modified_time, file_type |-> file_type,
     indexed_time |-> 5000]

Add(e) == [kind |-> "Add", entry |-> e]
Update(e) == [kind |-> "Update", entry |-> e]
Delete(p) == [kind |-> "Delete", path |-> p]
Move(f, t) == [kind |-> "Move", from |-> f, to |-> t]

----------------------------------------------------------------------------
(* The schema (create_schema) and the SQL statements of database.rs.       *)
(* A database value is [files, usage, seq]; a statement returns            *)
(* [err, db], err being "none", "constraint" or "error".                   *)

\* usage_stats.file_id carries no UNIQUE constraint and idx_usage_file_id is
\* an ordinary index: there is no conflict target for ON CONFLICT(file_id)
UsageFileIdUnique == FALSE

EmptyDb == [files |-> {}, usage |-> {}, seq |-> 0]

Done(db) == [err |-> "none", db |-> db]
Failed(e, db) == [err |-> e, db |-> db]

RowOf(db, p) == CHOOSE r \in db.files : r.path = p
HasPath(db, p) == \E r \in db.files : r.path = p

\* the row that the statements bind for an entry
BoundRow(id, e) ==
    [id |-> id,
     filename |-> e.filename,
     path |-> to_string_lossy(e.path),
     size |-> SizeAsI64(e.size),
     modified_time |-> system_time_to_timestamp(e.modified_time),
     file_type |-> as_str(e.file_type),
     indexed_time |-> system_time_to_timestamp(e.indexed_time)]

\* variant: INSERT OR IGNORE, which skips the row on a conflict
SqlInsertOrIgnore(db, e) ==
    IF HasPath(db, to_string_lossy(e.path)) THEN Done(db)
    ELSE Done([db EXCEPT !.files = @ \cup {BoundRow(db.seq + 1, e)},
                         !.seq = db.seq + 1])

\* INSERT INTO files (...) VALUES (...)
SqlInsert(db, e) ==
    IF HasPath(db, to_string_lossy(e.path)) THEN Failed("constraint", db)
    ELSE Done([db EXCEPT !.files = @ \cup {BoundRow(db.seq + 1, e)},
                         !.seq = db.seq + 1])

\* variant: INSERT OR REPLACE, which deletes the conflicting row and inserts
\* a new one under a new rowid
SqlUpsertReplace(db, e) ==
    LET p == to_string_lossy(e.path) IN
    Done([db EXCEPT
          !.files = {r \in db.files : r.path # p} \cup {BoundRow(db.seq + 1, e)},
          !.seq = db.seq + 1])

\* variant: size is not among the columns of DO UPDATE SET
SqlUpsertKeepSize(db, e) ==
    LET p == to_string_lossy(e.path) IN
    IF HasPath(db, p)
    THEN Done([db EXCEPT
               !.files = {IF r.path = p THEN [BoundRow(r.id, e) EXCEPT !.size = r.size]
                          ELSE r : r \in db.files},
               !.seq = db.seq + 1])
    ELSE Done([db EXCEPT !.files = @ \cup {BoundRow(db.seq + 1, e)},
                         !.seq = db.seq + 1])

\* INSERT INTO files (...) VALUES (...) ON CONFLICT(path) DO UPDATE SET ...
\* (a rowid is drawn from sqlite_sequence before the conflict is detected)
SqlUpsert(db, e) ==
    LET p == to_string_lossy(e.path) IN
    IF HasPath(db, p)
    THEN Done([db EXCEPT
               !.files = {IF r.path = p THEN BoundRow(r.id, e) ELSE r : r \in db.files},
               !.seq = db.seq + 1])
    ELSE Done([db EXCEPT !.files = @ \cup {BoundRow(db.seq + 1, e)},
                         !.seq = db.seq + 1])

\* DELETE FROM files WHERE path = ?   (fk: ON DELETE CASCADE is enforced)
SqlDelete(db, path, fk) ==
    LET p == to_string_lossy(path)
        gone == {r.id : r \in {x \in db.files : x.path = p}}
    IN  Done([db EXCEPT
              !.files = {r \in db.files : r.path # p},
              !.usage = IF fk THEN {u \in db.usage : u.file_id \notin gone} ELSE @])

\* variant: the table is emptied and its AUTOINCREMENT counter starts again
SqlDeleteAllReset(db, fk) ==
    Done([db EXCEPT !.files = {}, !.usage = IF fk THEN {} ELSE @, !.seq = 0])

\* DELETE FROM files
SqlDeleteAll(db, fk) ==
    Done([db EXCEPT !.files = {}, !.usage = IF fk THEN {} ELSE @])

\* variant: the update is carried out without the UNIQUE check on path
SqlMoveUnchecked(db, from, to) ==
    LET f == to_string_lossy(from)
        t == to_string_lossy(to)
    IN  Done([db EXCEPT !.files =
              {IF r.path = f THEN [r EXCEPT !.path = t, !.filename = file_name(to)]
               ELSE r : r \in db.files}])

\* UPDATE files SET path = ?, filename = ? WHERE path = ?
SqlMove(db, from, to) ==
    LET f == to_string_lossy(from)
        t == to_string_lossy(to)
    IN  IF ~HasPath(db, f) THEN Done(db)
        ELSE IF t # f /\ HasPath(db, t) THEN Failed("constraint", db)
        ELSE Done([db EXCEPT !.files =
                   {IF r.path = f THEN [r EXCEPT !.path = t, !.filename = file_name(to)]
                    ELSE r : r \in db.files}])

\* INSERT INTO usage_stats (file_id, launch_count, last_launched) VALUES (?, 1, ?)
\* ON CONFLICT(file_id) DO UPDATE SET launch_count = launch_count + 1, last_launched = ?
\* variant: a plain INSERT, without the ON CONFLICT clause
SqlLaunchInsert(db, file_id, t) ==
    Done([db EXCEPT !.usage = @ \cup
          {[file_id |-> file_id, launch_count |-> 1, last_launched |-> t]}])

SqlLaunch(db, file_id, t) ==
    IF ~UsageFileIdUnique THEN Failed("error", db)
    ELSE IF \E u \in db.usage : u.file_id = file_id
    THEN Done([db EXCEPT !.usage =
               {IF u.file_id = file_id
                THEN [u EXCEPT !.launch_count = @ + 1, !.last_launched = t]
                ELSE u : u \in db.usage}])
    ELSE Done([db EXCEPT !.usage = @ \cup
               {[file_id |-> file_id, launch_count |-> 1, last_launched |-> t]}])

\* one arm of the match in try_execute_batch
ApplyOp(db, op, fk) ==
    CASE op.kind \in {"Add", "Update"} -> SqlUpsert(db, op.entry)
      [] op.kind = "Delete" -> SqlDelete(db, op.path, fk)
      [] op.kind = "Move" -> SqlMove(db, op.from, op.to)

----------------------------------------------------------------------------
(* query_files *)

\* FROM files f LEFT JOIN usage_stats u ON f.id = u.file_id, with the COALESCEs
JoinRows(db) ==
    {[f |-> r, launch_count |-> u.launch_count, last_launched |-> u.last_launched] :
        <<r, u>> \in {x \in db.files \X db.usage : x[1].id = x[2].file_id}}
    \cup
    {[f |-> r, launch_count |-> 0, last_launched |-> 0] :
        r \in {x \in db.files : \A u \in db.usage : u.file_id # x.id}}

\* WHERE f.filename LIKE '%' || ? || '%'
Matches(filename, q) == Like(<<"%">> \o q \o <<"%">>, filename)

\* CASE WHEN f.filename = ? THEN 0 WHEN f.filename LIKE ? || '%' THEN 1 ELSE 2 END
Tier(filename, q) ==
    IF filename = q THEN 0
    ELSE IF Like(q \o <<"%">>, filename) THEN 1
    ELSE 2

\* variant: the last ORDER BY term sorts descending
BeforeNameDesc(a, b, q) ==
    \/ Tier(a.f.filename, q) < Tier(b.f.filename, q)
    \/ /\ Tier(a.f.filename, q) = Tier(b.f.filename, q)
       /\ a.launch_count > b.launch_count
    \/ /\ Tier(a.f.filename, q) = Tier(b.f.filename, q)
       /\ a.launch_count = b.launch_count
       /\ NoCaseCmp(a.f.filename, b.f.filename) > 0

\* ORDER BY tier, COALESCE(u.launch_count, 0) DESC, f.filename COLLATE NOCASE:
\* row a sorts strictly before row b
Before(a, b, q) ==
    LET ta == Tier(a.f.filename, q)
        tb == Tier(b.f.filename, q)
    IN  \/ ta < tb
        \/ ta = tb /\ a.launch_count > b.launch_count
        \/ ta = tb /\ a.launch_count = b.launch_count
                   /\ NoCaseCmp(a.f.filename, b.f.filename) < 0

\* the closure building a FileEntry from a result row
RowToEntry(r) ==
    [id |-> r.f.id,
     filename |-> r.f.filename,
     path |-> r.f.path,
     size |-> SizeAsU64(r.f.size),
     modified_time |-> timestamp_to_system_time(r.f.modified_time),
     file_type |-> from_str(r.f.file_type),
     indexed_time |-> timestamp_to_system_time(r.f.indexed_time)]

\* the results query_files may return: SQL leaves the order of rows that tie
\* on every ORDER BY term open, so each such order is a possible result
QueryResults(db, q, limit) ==
    LET M == {r \in JoinRows(db) : Matches(r.f.filename, q)}
        n == Min(limit, Cardinality(M))
        picks == {s \in [1..n -> M] :
                    /\ \A i, j \in 1..n : i < j => s[i] # s[j] /\ ~Before(s[j], s[i], q)
                    /\ \A m \in M : (\A i \in 1..n : s[i] # m) =>
                                    \A i \in 1..n : ~Before(m, s[i], q)}
    IN  {[i \in 1..n |-> RowToEntry(s[i])] : s \in picks}

----------------------------------------------------------------------------
(* The persisted schema and the plan of Database::initialize.              *)
(* A schema value is [objects, version]: the names in sqlite_master and    *)
(* the text of the metadata row schema_version ("none": no such row).      *)

\* const SCHEMA_VERSION: i32 = 2
SCHEMA_VERSION == 2

\* the statements of create_schema, in order
CreateSchemaObjects ==
    << "files", "usage_stats", "idx_filename", "idx_path", "idx_modified_time",
       "idx_usage_file_id", "idx_usage_launch_count", "metadata" >>

\* the statements of migrate_v1_to_v2, in order
MigrateV1Objects == << "usage_stats", "idx_usage_file_id", "idx_usage_launch_count" >>

\* the table an index is created on ("" for a table)
TableOf(name) ==
    CASE name \in {"idx_filename", "idx_path", "idx_modified_time"} -> "files"
      [] name \in {"idx_usage_file_id", "idx_usage_launch_count"} -> "usage_stats"
      [] OTHER -> ""

Range(f) == {f[i] : i \in DOMAIN f}

AllObjects == Range(CreateSchemaObjects)

\* a store written at version 1: everything but the usage tracking
V1Objects == AllObjects \ Range(MigrateV1Objects)

CreateStmt(name) == [kind |-> "create", name |-> name]
SetVersionStmt(v) == [kind |-> "set_version", value |-> v]
\* return Err(rusqlite::Error::InvalidQuery)
UnknownPathStmt == [kind |-> "unknown_path", value |-> 0]

Creates(names) == [i \in 1..Len(names) |-> CreateStmt(names[i])]

\* version.to_string()
VersionToString(v) ==
    CASE v = 1 -> "1" [] v = 2 -> "2" [] v = 3 -> "3" [] v = -1 -> "-1" [] v = 0 -> "0"

\* version_str.parse().unwrap_or(0)
ParseVersion(str) ==
    CASE str = "1" -> 1 [] str = "2" -> 2 [] str = "3" -> 3 [] str = "-1" -> -1
      [] OTHER -> 0

get_schema_version(s) ==
    IF "metadata" \notin s.objects THEN 0
    ELSE IF s.version = "none" THEN 0
    ELSE ParseVersion(s.version)

\* variant: the loop over the versions ends without set_schema_version
RECURSIVE MigrateNoVersion(_, _)
MigrateNoVersion(version, to_version) ==
    IF version >= to_version THEN << >>
    ELSE IF version = 1
         THEN Creates(MigrateV1Objects) \o MigrateNoVersion(version + 1, to_version)
         ELSE << UnknownPathStmt >>

\* migrate_schema: what is executed from the loop's turn for version on
RECURSIVE migrate_schema(_, _)
migrate_schema(version, to_version) ==
    IF version >= to_version THEN << SetVersionStmt(to_version) >>
    ELSE IF version = 1
         THEN Creates(MigrateV1Objects) \o migrate_schema(version + 1, to_version)
         ELSE << UnknownPathStmt >>

\* initialize: the statements that follow get_schema_version
initialize(current_version) ==
    IF current_version = 0
    THEN Creates(CreateSchemaObjects) \o << SetVersionStmt(SCHEMA_VERSION) >>
    ELSE IF current_version < SCHEMA_VERSION
         THEN migrate_schema(current_version, SCHEMA_VERSION)
         ELSE << >>

\* CREATE TABLE / CREATE INDEX IF NOT EXISTS, INSERT OR REPLACE INTO metadata:
\* [err, schema]
ExecSchemaStmt(s, st) ==
    IF st.kind = "create"
    THEN IF st.name \in s.objects THEN [err |-> "none", schema |-> s]
         ELSE IF TableOf(st.name) # "" /\ TableOf(st.name) \notin s.objects
              THEN [err |-> "error", schema |-> s]
              ELSE [err |-> "none", schema |-> [s EXCEPT !.objects = @ \cup {st.name}]]
    ELSE IF "metadata" \notin s.objects
         THEN [err |-> "error", schema |-> s]
         ELSE [err |-> "none",
               schema |-> [s EXCEPT !.version = VersionToString(st.value)]]

CurrentSchema == [objects |-> AllObjects, version |-> VersionToString(SCHEMA_VERSION)]

NoOpen == [res |-> "none", opens |-> 0, calls |-> 0, from |-> CurrentSchema]

----------------------------------------------------------------------------
(* State of the connection *)

\* execute_batch: let max_retries = 5
max_retries == 5
\* execute_batch: let mut delay_ms = 100
InitialDelayMs == 100
\* execute_batch: .min(1600)
MaxDelayMs == 1600

Store == [files |-> files, usage |-> usage, seq |-> seq]

SetStore(db) ==
    /\ files' = db.files
    /\ usage' = db.usage
    /\ seq' = db.seq

NoQuery == [query |-> << >>, limit |-> 0, rows |-> << >>, made |-> FALSE]
NoCall == [op |-> "none", arg |-> << >>, res |-> "Ok", val |-> 0]

BatchIdle ==
    /\ pc' = "idle"
    /\ ops' = << >>
    /\ idx' = 0
    /\ attempt' = 0
    /\ delay_ms' = 0
    /\ waits' = << >>
    /\ errs' = << >>
    /\ tx' = EmptyDb
    /\ txLock' = FALSE

NoProcCall == [op |-> "none", arg |-> << >>, res |-> << >>]

\* EventProcessor::new, with nothing on the filesystem looked at yet
ProcessorNew ==
    /\ pending_events = {}
    /\ operation_queue = << >>
    /\ now = 0
    /\ fs = << >>
    /\ plast = NoProcCall
    /\ ppre = [pending_events |-> {}, operation_queue |-> << >>, burst |-> << >>]
    /\ burst = << >>

NoStep == [step |-> "none", ops |-> << >>, queue |-> << >>, committed |-> 0,
           failed |-> FALSE]

\* IndexingDaemon::new and initialize have returned Ok: main is about to enter
\* the loop of run
DaemonNew ==
    /\ channel = << >>
    /\ running = TRUE
    /\ mainpc = "top"
    /\ dlast = NoStep
    /\ arrived = 0
    /\ committed = << >>

\* the rows of a store just created
StoreEmpty ==
    /\ files = {}
    /\ usage = {}
    /\ seq = 0

\* a connection on which nothing has been called
ConnIdle ==
    /\ otherLock = "none"
    /\ otherWrote = FALSE
    /\ pc = "idle"
    /\ ops = << >>
    /\ idx = 0
    /\ attempt = 0
    /\ delay_ms = 0
    /\ waits = << >>
    /\ errs = << >>
    /\ tx = EmptyDb
    /\ txLock = FALSE
    /\ last = NoCall
    /\ pre = EmptyDb
    /\ qres = NoQuery

NoScan == [op |-> "none", root |-> << >>, exclude |-> << >>, items |-> {}]
NoNotification == [op |-> "none", raw |-> [kind |-> "None", paths |-> << >>],
                   exclude |-> << >>, res |-> << >>, channel |-> << >>]

\* Scanner::new and FilesystemWatcher::new, nothing scanned or notified yet
EdgesNew ==
    /\ scanned = NoScan
    /\ wlast = NoNotification

\* Database::open has returned Ok on a fresh file
StoreOpened ==
    /\ schema = CurrentSchema
    /\ osteps = << >>
    /\ olast = NoOpen
    /\ schema0 = [schema |-> CurrentSchema, files |-> {}]
    /\ EdgesNew

Init ==
    /\ StoreEmpty
    /\ foreign_keys \in BOOLEAN
    /\ ConnIdle
    /\ ProcessorNew
    /\ DaemonNew
    /\ StoreOpened

CanCall == pc \in {"idle", "done"}

\* a single statement run in autocommit mode: it needs the database file to
\* itself, and fails with SQLITE_BUSY while another connection holds a lock
Autocommit(op, arg, r, val) ==
    /\ CanCall
    /\ pre' = Store
    /\ IF otherLock # "none"
       THEN /\ UNCHANGED storeVars
            /\ last' = [op |-> op, arg |-> arg, res |-> "busy", val |-> 0]
       ELSE /\ SetStore(r.db)
            /\ last' = [op |-> op, arg |-> arg,
                        res |-> IF r.err = "none" THEN "Ok" ELSE r.err,
                        val |-> IF r.err = "none" THEN val ELSE 0]
    /\ qres' = NoQuery
    /\ otherWrote' = FALSE
    /\ BatchIdle
    /\ UNCHANGED << nonStoreVars, foreign_keys, otherLock >>

insert_file(e) ==
    /\ seq < MaxId
    /\ Autocommit("insert_file", e, SqlInsert(Store, e), seq + 1)

update_file(e) ==
    /\ seq < MaxId
    /\ Autocommit("update_file", e, SqlUpsert(Store, e), 0)

delete_file(p) ==
    Autocommit("delete_file", p, SqlDelete(Store, p, foreign_keys), 0)

move_file(f, t) ==
    Autocommit("move_file", <<f, t>>, SqlMove(Store, f, t), 0)

\* reindex: db.connection().execute("DELETE FROM files", [])
reindex_clear ==
    Autocommit("reindex_clear", << >>, SqlDeleteAll(Store, foreign_keys), 0)

\* t is the value of current_timestamp()
record_file_launch(p, t) ==
    /\ CanCall
    /\ pre' = Store
    /\ LET arg == [path |-> p, time |-> t]
           r == IF HasPath(Store, to_string_lossy(p))
                THEN SqlLaunch(Store, RowOf(Store, to_string_lossy(p)).id, t)
                ELSE Done(Store)
           busy == HasPath(Store, to_string_lossy(p)) /\ r.err = "none"
                   /\ otherLock # "none"
       IN  IF busy
           THEN /\ UNCHANGED storeVars
                /\ last' = [op |-> "record_file_launch", arg |-> arg,
                            res |-> "busy", val |-> 0]
           ELSE /\ SetStore(r.db)
                /\ last' = [op |-> "record_file_launch", arg |-> arg,
                            res |-> IF r.err = "none" THEN "Ok" ELSE r.err, val |-> 0]
    /\ qres' = NoQuery
    /\ otherWrote' = FALSE
    /\ BatchIdle
    /\ UNCHANGED << nonStoreVars, foreign_keys, otherLock >>

\* (qres holds one result: a query that follows another without a write in
\* between would only overwrite it with a result the first could have recorded)
query_files(q, limit) ==
    /\ CanCall
    /\ ~qres.made
    /\ \E rows \in QueryResults(Store, q, limit) :
          qres' = [query |-> q, limit |-> limit, rows |-> rows, made |-> TRUE]
    /\ UNCHANGED << nonStoreVars, storeVars, foreign_keys, otherLock, otherWrote, batchVars, last, pre >>

----------------------------------------------------------------------------
(* execute_batch and try_execute_batch *)

NumUpserts(o) == Cardinality({i \in 1..Len(o) : o[i].kind \in {"Add", "Update"}})

\* upserts the running batch may still issue
Pending == IF pc \in {"ops", "sleep"} THEN NumUpserts(ops) ELSE 0

\* variant: only DatabaseLocked is retried
RetriableLockedOnly(e) == e = "locked"

\* err.code == DatabaseBusy || err.code == DatabaseLocked
Retriable(e) == e \in {"busy", "locked"}

\* delay_ms = (delay_ms * 2).min(1600)
NextDelay(d) == Min(d * 2, MaxDelayMs)

\* variant: the last turn of the loop sleeps and retries too
MayRetryAlways(a) == a < max_retries

\* if attempt < max_retries - 1
MayRetry(a) == a < max_retries - 1

\* the call: the loop is entered and the first try_execute_batch opens its
\* transaction (BEGIN DEFERRED takes no lock)
execute_batch(o) ==
    /\ CanCall
    /\ seq + NumUpserts(o) <= MaxId
    /\ pc' = "ops"
    /\ ops' = o
    /\ idx' = 1
    /\ attempt' = 0
    /\ delay_ms' = InitialDelayMs
    /\ waits' = << >>
    /\ errs' = << >>
    /\ tx' = EmptyDb
    /\ txLock' = FALSE
    /\ pre' = Store
    /\ last' = [op |-> "execute_batch", arg |-> o, res |-> "pending", val |-> 0]
    /\ qres' = NoQuery
    /\ otherWrote' = FALSE
    /\ UNCHANGED << nonStoreVars, storeVars, foreign_keys, otherLock >>

\* variant: a failed attempt commits what it has executed instead of rolling back
AttemptFailedCommits(e) ==
    /\ errs' = Append(errs, e)
    /\ IF txLock THEN SetStore(tx) ELSE UNCHANGED storeVars
    /\ tx' = EmptyDb
    /\ txLock' = FALSE
    /\ idx' = 0
    /\ IF e \in {"busy", "locked"} /\ attempt < max_retries - 1
       THEN /\ pc' = "sleep"
            /\ waits' = Append(waits, delay_ms)
            /\ UNCHANGED last
       ELSE /\ pc' = "done"
            /\ UNCHANGED waits
            /\ last' = [last EXCEPT !.res = e]
    /\ UNCHANGED << ops, attempt, delay_ms >>

\* try_execute_batch returns Err(e): the transaction is dropped, which rolls
\* it back, and execute_batch matches on the error
AttemptFailed(e) ==
    /\ errs' = Append(errs, e)
    /\ tx' = EmptyDb
    /\ txLock' = FALSE
    /\ idx' = 0
    /\ IF Retriable(e) /\ MayRetry(attempt)
       THEN /\ pc' = "sleep"
            /\ waits' = Append(waits, delay_ms)
            /\ UNCHANGED last
       ELSE /\ pc' = "done"
            /\ UNCHANGED waits
            /\ last' = [last EXCEPT !.res = e]
    /\ UNCHANGED << storeVars, ops, attempt, delay_ms >>

\* tx.execute(...) for operations[idx]; the first statement takes the write lock
TxStatement ==
    /\ pc = "ops"
    /\ idx \in 1..Len(ops)
    /\ IF ~txLock /\ otherLock = "reserved"
       THEN AttemptFailed("busy")
       ELSE LET r == ApplyOp(IF txLock THEN tx ELSE Store, ops[idx], foreign_keys)
            IN  IF r.err = "none"
                THEN /\ tx' = r.db
                     /\ txLock' = TRUE
                     /\ idx' = idx + 1
                     /\ UNCHANGED << storeVars, pc, ops, attempt, delay_ms, waits,
                                     errs, last >>
                ELSE AttemptFailed(r.err)
    /\ UNCHANGED << nonStoreVars, foreign_keys, otherLock, otherWrote, pre, qres >>

\* a statement or the commit fails on the storage itself
TxIoError ==
    /\ pc = "ops"
    /\ AttemptFailed("io")
    /\ UNCHANGED << nonStoreVars, foreign_keys, otherLock, otherWrote, pre, qres >>

\* tx.commit(): needs the file exclusively when something was written
TxCommit ==
    /\ pc = "ops"
    /\ idx = Len(ops) + 1
    /\ IF txLock /\ otherLock = "shared"
       THEN AttemptFailed("busy")
       ELSE /\ IF txLock THEN SetStore(tx) ELSE UNCHANGED storeVars
            /\ pc' = "done"
            /\ errs' = Append(errs, "none")
            /\ last' = [last EXCEPT !.res = "Ok"]
            /\ tx' = EmptyDb
            /\ txLock' = FALSE
            /\ idx' = 0
            /\ UNCHANGED << ops, attempt, delay_ms, waits >>
    /\ UNCHANGED << nonStoreVars, foreign_keys, otherLock, otherWrote, pre, qres >>

\* the sleep ends, the delay is doubled, the loop takes its next turn
Wake ==
    /\ pc = "sleep"
    /\ pc' = "ops"
    /\ idx' = 1
    /\ attempt' = attempt + 1
    /\ delay_ms' = NextDelay(delay_ms)
    /\ UNCHANGED << nonStoreVars, storeVars, foreign_keys, otherLock, otherWrote, ops, waits, errs,
                    tx, txLock, last, pre, qres >>

----------------------------------------------------------------------------
(* A second connection to the same database file *)

PathO == << <<"o">>, <<"o">> >>
OtherEntry == FileEntry(<<"o">>, PathO, 1, 1000, "Regular")

OtherBeginWrite ==
    /\ otherLock = "none"
    /\ ~txLock
    /\ otherLock' = "reserved"
    /\ UNCHANGED << nonStoreVars, storeVars, foreign_keys, otherWrote, batchVars, last, pre, qres >>

\* the other writer commits a batch of its own, [Add(OtherEntry)]
OtherCommit ==
    /\ otherLock = "reserved"
    /\ seq + Pending < MaxId
    /\ SetStore(SqlUpsert(Store, OtherEntry).db)
    /\ otherLock' = "none"
    /\ otherWrote' = TRUE
    /\ UNCHANGED << nonStoreVars, foreign_keys, batchVars, last, pre, qres >>

OtherBeginRead ==
    /\ otherLock = "none"
    /\ otherLock' = "shared"
    /\ UNCHANGED << nonStoreVars, storeVars, foreign_keys, otherWrote, batchVars, last, pre, qres >>

OtherEndRead ==
    /\ otherLock = "shared"
    /\ otherLock' = "none"
    /\ UNCHANGED << nonStoreVars, storeVars, foreign_keys, otherWrote, batchVars, last, pre, qres >>

----------------------------------------------------------------------------
(* Specification of the store used by two connections *)

PathA == << <<"a">>, <<"a">> >>
PathB == << <<"a">>, <<"b">> >>

EntryA == FileEntry(<<"a">>, PathA, 1, 1500, "Regular")
EntryA2 == FileEntry(<<"a">>, PathA, 2 ^ SizeBits - 1, 2500, "Symlink")
EntryB == FileEntry(<<"b">>, PathB, 0, 0, "Directory")

Entries == {EntryA, EntryA2, EntryB}
Paths == {PathA, PathB}
Times == {7}

Batches ==
    {<<Add(e), Add(e)>> : e \in Entries} \cup
    { << >>,
      <<Add(EntryA)>>,
      <<Update(EntryA2), Add(EntryB), Delete(PathA)>>,
      <<Add(EntryB), Move(PathB, PathA)>>,
      <<Delete(PathB), Move(PathA, PathB)>> }

Next ==
    \/ \E e \in Entries : insert_file(e)
    \/ \E e \in Entries : update_file(e)
    \/ \E p \in Paths : delete_file(p)
    \/ \E f, t \in Paths : move_file(f, t)
    \/ reindex_clear
    \/ \E p \in Paths, t \in Times : record_file_launch(p, t)
    \/ \E o \in Batches : execute_batch(o)
    \/ TxStatement
    \/ TxIoError
    \/ TxCommit
    \/ Wake
    \/ OtherBeginWrite
    \/ OtherCommit
    \/ OtherBeginRead
    \/ OtherEndRead

Spec == Init /\ [][Next]_vars

----------------------------------------------------------------------------
(* Properties of execute_batch *)

\* the effect of a whole batch applied in order to db, or the first error
RECURSIVE ApplyAll(_, _, _)
ApplyAll(db, o, fk) ==
    IF o = << >> THEN Done(db)
    ELSE LET r == ApplyOp(db, Head(o), fk)
         IN  IF r.err = "none" THEN ApplyAll(r.db, Tail(o), fk) ELSE r

BatchDone == pc = "done" /\ last.op = "execute_batch"

\* the committed tables as they are when only the other connection wrote to pre
UntouchedSince(db) ==
    /\ files = IF otherWrote THEN SqlUpsert(db, OtherEntry).db.files ELSE db.files
    /\ usage = db.usage

\* what one step may do to the committed tables while a batch runs
BatchStepAtomic ==
    pc \in {"ops", "sleep"} =>
       \/ files' = files /\ usage' = usage
       \/ otherLock = "reserved" /\ otherLock' = "none"
       \/ /\ pc' = "done"
          /\ last'.res = "Ok"
          /\ ApplyAll(Store, ops, foreign_keys).err = "none"
          /\ files' = ApplyAll(Store, ops, foreign_keys).db.files
          /\ usage' = ApplyAll(Store, ops, foreign_keys).db.usage

\* C1: execute_batch is atomic.  While a batch runs, the committed tables
\* (what any reader sees) change only by the other connection's commit or by
\* the one step that commits the effect of all operations applied in order;
\* a batch that returned an error has left files and usage_stats as they were
\* before the call.
C1_BatchAtomic ==
    /\ [][BatchStepAtomic]_vars
    /\ [](BatchDone /\ last.res # "Ok" => UntouchedSince(pre))

\* a batch failed at its second operation after its first had been executed,
\* and the first operation's record is not in the store
C1_Witness ==
    /\ BatchDone
    /\ last.arg = <<Add(EntryB), Move(PathB, PathA)>>
    /\ last.res = "constraint"
    /\ ~HasPath(Store, to_string_lossy(PathB))
    /\ HasPath(Store, to_string_lossy(PathA))

\* C2: execute_batch retries only on busy/locked, makes at most 5 attempts,
\* sleeps 100 ms before the first retry and twice the previous sleep before
\* each later one, never more than 1600 ms, returns the busy error when the
\* 5th attempt is contended too, and returns any other error at once.
C2_RetryPolicy ==
    /\ Len(errs) <= 5
    /\ Len(waits) <= 4
    /\ \A i \in 1..Len(waits) :
          /\ waits[i] = <<100, 200, 400, 800>>[i]
          /\ waits[i] <= 1600
          /\ errs[i] \in {"busy", "locked"}
    /\ pc \in {"ops", "sleep"} => Len(waits) = Len(errs)
    /\ BatchDone =>
          /\ Len(errs) = Len(waits) + 1
          /\ last.res = (IF errs[Len(errs)] = "none" THEN "Ok" ELSE errs[Len(errs)])
          /\ last.res = "busy" => Len(errs) = 5

\* all five attempts were contended
C2_Witness ==
    /\ BatchDone
    /\ last.res = "busy"
    /\ waits = <<100, 200, 400, 800>>
    /\ errs = <<"busy", "busy", "busy", "busy", "busy">>

OnlyAdds(o) == \A i \in 1..Len(o) : o[i].kind = "Add"

Present(e) == \E r \in files : [r EXCEPT !.id = 0] = BoundRow(0, e)

\* C3: two writers.  A call that finds the store free at one of its 5
\* attempts returns that attempt's result, and when it returns Ok after the
\* other writer committed, the records of both batches are present; a call
\* that returns the busy error found the store contended at all 5 attempts
\* and has left none of its mutations.
C3_TwoWriters ==
    BatchDone =>
       /\ (last.res = "Ok" /\ otherWrote /\ OnlyAdds(ops)) =>
             /\ Present(OtherEntry)
             /\ \A i \in 1..Len(ops) : Present(ops[i].entry)
       /\ (\E i \in 1..Len(errs) : errs[i] \notin {"busy", "locked"}) => last.res # "busy"
       /\ last.res = "busy" =>
             /\ Len(errs) = 5
             /\ \A i \in 1..Len(errs) : errs[i] = "busy"
             /\ UntouchedSince(pre)

\* the caller was held off at least once, the other writer committed, and the
\* caller then returned Ok
C3_Witness ==
    /\ BatchDone
    /\ last.res = "Ok"
    /\ last.arg = <<Add(EntryA)>>
    /\ otherWrote
    /\ Len(waits) >= 1
    /\ Present(OtherEntry)
    /\ Present(EntryA)

----------------------------------------------------------------------------
(* Properties of the tables *)

LaunchCount(db, p) ==
    IF HasPath(db, p) /\ \E u \in db.usage : u.file_id = RowOf(db, p).id
    THEN (CHOOSE u \in db.usage : u.file_id = RowOf(db, p).id).launch_count
    ELSE 0

\* C5: record_file_launch(p) with no concurrent writer succeeds; when p has a
\* record, its launch_count is one more than before (so N calls add N) and
\* last_launched is the time of the call; when p has none, nothing changes.
C5_LaunchCounts ==
    (last.op = "record_file_launch" /\ last.res # "busy" /\ ~otherWrote) =>
       LET p == to_string_lossy(last.arg.path) IN
       /\ last.res = "Ok"
       /\ files = pre.files
       /\ IF HasPath(pre, p)
          THEN /\ LaunchCount(Store, p) = LaunchCount(pre, p) + 1
               /\ \E u \in usage : /\ u.file_id = RowOf(Store, p).id
                                   /\ u.last_launched >= last.arg.time
          ELSE usage = pre.usage

\* C9: execute_batch([Add(E), Add(E)]) that returns Ok leaves exactly one
\* record with E's path, and run on a store that already holds a record at
\* that path (as after a first run) leaves the record count and the record's
\* id as they were.
C9_AddTwice ==
    \A e \in Entries :
       (BatchDone /\ last.res = "Ok" /\ last.arg = <<Add(e), Add(e)>> /\ ~otherWrote) =>
          LET p == to_string_lossy(e.path) IN
          /\ Cardinality({r \in files : r.path = p}) = 1
          /\ Present(e)
          /\ HasPath(pre, p) =>
                /\ Cardinality(files) = Cardinality(pre.files)
                /\ RowOf(Store, p).id = RowOf(pre, p).id

\* the batch has run a second time, on the store its first run left
C9_Witness ==
    /\ BatchDone
    /\ last.res = "Ok"
    /\ last.arg = <<Add(EntryA), Add(EntryA)>>
    /\ ~otherWrote
    /\ pre = [files |-> {BoundRow(1, EntryA)}, usage |-> {}, seq |-> 2]
    /\ files = {BoundRow(1, EntryA)}

----------------------------------------------------------------------------
(* Specification of one connection that fills the store and queries it *)

PathA2 == << <<"b">>, <<"a">> >>
PathAb == << <<"a">>, <<"a", "b">> >>
PathUnderscore == << <<"a">>, <<"_">> >>
PathNotUtf8 == << <<"<FF>">>, <<"A">> >>

QueryEntries ==
    { EntryA,
      FileEntry(<<"a">>, PathA2, 2, 2500, "Directory"),
      FileEntry(<<"A">>, PathNotUtf8, 2 ^ SizeBits - 1, 999, "Symlink"),
      FileEntry(<<"a", "b">>, PathAb, 3, -1500, "Regular"),
      FileEntry(<<"_">>, PathUnderscore, 0, 0, "Other") }

Queries == {e.filename : e \in QueryEntries} \cup {<< >>, <<"%">>}
Limits == {1, 3}

NextQuery ==
    \/ \E e \in QueryEntries : execute_batch(<<Add(e)>>)
    \/ TxStatement
    \/ TxCommit
    \/ \E t \in Times : record_file_launch(PathA, t)
    \/ \E q \in Queries, limit \in Limits : query_files(q, limit)

SpecQuery == Init /\ [][NextQuery]_vars

----------------------------------------------------------------------------
(* Specification of scenario B of the design: three entries, one launch *)

Str_b_txt == <<"b", ".", "t", "x", "t">>
Str_boot_txt == <<"b", "o", "o", "t", ".", "t", "x", "t">>
Str_tab_txt == <<"t", "a", "b", ".", "t", "x", "t">>

E1 == FileEntry(Str_b_txt, << <<"a">>, Str_b_txt >>, 10, 1000, "Regular")
E2 == FileEntry(Str_boot_txt, << <<"a">>, Str_boot_txt >>, 10, 1000, "Regular")
E3 == FileEntry(Str_tab_txt, << <<"a">>, Str_tab_txt >>, 10, 1000, "Regular")

ScenarioEntries == {E1, E2, E3}

ScenarioBatches ==
    {<<Add(x), Add(y), Add(z)>> : <<x, y, z>> \in
        {t \in ScenarioEntries \X ScenarioEntries \X ScenarioEntries :
            t[1] # t[2] /\ t[1] # t[3] /\ t[2] # t[3]}}
    \cup {<<Add(x)>> : x \in ScenarioEntries}

NextScenario ==
    \/ \E o \in ScenarioBatches : execute_batch(o)
    \/ TxStatement
    \/ TxCommit
    \/ \E e \in ScenarioEntries, t \in Times : record_file_launch(e.path, t)
    \/ \E q \in {<<"b">>, <<"t">>}, limit \in {1, 2, 10} : query_files(q, limit)

SpecScenario == Init /\ [][NextScenario]_vars

----------------------------------------------------------------------------
(* Properties of query_files *)

\* q occurs in s when the ASCII letters of both are folded to one case
ContainsNoCase(s, q) ==
    \E k \in 0..(Len(s) - Len(q)) : \A j \in 1..Len(q) : Fold(s[k + j]) = Fold(q[j])

StartsWithNoCase(s, q) ==
    Len(q) <= Len(s) /\ \A j \in 1..Len(q) : Fold(s[j]) = Fold(q[j])

EqualsNoCase(s, q) == Len(s) = Len(q) /\ StartsWithNoCase(s, q)

\* C6: every record query_files(q, L) returns has a filename that contains q
\* as a case-insensitive substring, also when q contains % or _.
C6_ResultsContainQuery ==
    qres.made =>
       \A i \in 1..Len(qres.rows) : ContainsNoCase(qres.rows[i].filename, qres.query)

\* the tier of the ranking rule: exact, prefix, substring (case-insensitive)
RankTier(filename, q) ==
    IF EqualsNoCase(filename, q) THEN 0
    ELSE IF StartsWithNoCase(filename, q) THEN 1
    ELSE 2

\* entry a ranks strictly before entry b: tier, then launch_count descending
\* (0 when never launched), then case-insensitive filename ascending
RanksBefore(a, b, q) ==
    LET ta == RankTier(a.filename, q)
        tb == RankTier(b.filename, q)
        la == LaunchCount(Store, a.path)
        lb == LaunchCount(Store, b.path)
    IN  \/ ta < tb
        \/ ta = tb /\ la > lb
        \/ ta = tb /\ la = lb /\ NoCaseCmp(a.filename, b.filename) < 0

\* C7: query_files(q, L) returns the first L of the records whose filename
\* contains q, sorted by tier (exact, prefix, substring), then launch_count
\* descending, then case-insensitive filename ascending.
C7_Ranking ==
    qres.made =>
       LET q == qres.query
           rows == qres.rows
           M == {r \in files : ContainsNoCase(r.filename, q)}
       IN  /\ Len(rows) = Min(qres.limit, Cardinality(M))
           /\ \A i \in 1..Len(rows) : \E r \in M : r.id = rows[i].id
           /\ \A i, j \in 1..Len(rows) :
                 i < j => rows[i].id # rows[j].id /\ ~RanksBefore(rows[j], rows[i], q)
           /\ \A r \in M : (\A i \in 1..Len(rows) : rows[i].id # r.id) =>
                 \A i \in 1..Len(rows) : ~RanksBefore(r, rows[i], q)

\* E.modified_time truncated to whole seconds
TruncToSeconds(ms) == (ms \div 1000) * 1000

RoundTrips(e, got) ==
    /\ got.path = e.path
    /\ got.size = e.size
    /\ got.filename = e.filename
    /\ got.file_type = e.file_type
    /\ got.modified_time = TruncToSeconds(e.modified_time)

AddedThenQueried(e) ==
    /\ BatchDone
    /\ last.res = "Ok"
    /\ last.arg = <<Add(e)>>
    /\ qres.made
    /\ qres.query = e.filename
    /\ qres.limit = 1

\* C10 as stated: for every entry E and every store, after
\* execute_batch([Add(E)]) the one record query_files(E.filename, 1) returns
\* equals E on path, size, filename and file_type, with modified_time
\* truncated to whole seconds.
C10_RoundTripAlways ==
    \A e \in QueryEntries :
       AddedThenQueried(e) => Len(qres.rows) = 1 /\ RoundTrips(e, qres.rows[1])

ValidUtf8Path(p) == \A i \in 1..Len(p) : ValidUtf8(p[i])

\* C10 amended: the same, for an entry E whose path is valid UTF-8 and whose
\* modified_time is not before the Unix epoch, on a store in which no other
\* record has E's filename.
C10_RoundTrip ==
    \A e \in QueryEntries :
       ( /\ AddedThenQueried(e)
         /\ ValidUtf8Path(e.path)
         /\ e.modified_time >= 0
         /\ \A r \in files : r.filename = e.filename => r.path = to_string_lossy(e.path) )
       => Len(qres.rows) = 1 /\ RoundTrips(e, qres.rows[1])

\* EntryA, modified 1500 ms after the epoch, was added to a store holding two
\* other records that match its filename, and came back from the query
C10_Witness ==
    /\ AddedThenQueried(EntryA)
    /\ Cardinality({r \in files : Matches(r.filename, EntryA.filename)}) = 3
    /\ \A r \in files : r.filename = EntryA.filename => r.path = to_string_lossy(PathA)
    /\ Len(qres.rows) = 1
    /\ qres.rows[1].modified_time = 1000

\* the store holds exactly the three entries, added in this order to an empty
\* store, the last call was record_file_launch("/a/boot.txt"), and
\* query_files("b", 10) has been made
ScenarioReached ==
    /\ pre = [files |-> {BoundRow(1, E1), BoundRow(2, E2), BoundRow(3, E3)},
              usage |-> {}, seq |-> 3]
    /\ last.op = "record_file_launch"
    /\ last.arg.path = E2.path
    /\ qres.made
    /\ qres.query = <<"b">>
    /\ qres.limit = 10

----------------------------------------------------------------------------
(* Database::open on a file that may hold an older or a newer store *)

\* number of Database::open calls followed
MaxOpens == 3

OpenReturns(res) ==
    /\ olast' = [olast EXCEPT !.res = res,
                              !.opens = IF res = "Ok" THEN @ + 1 ELSE @]
    /\ osteps' = << >>

\* Database::open up to the match on current_version in initialize
open ==
    /\ olast.res # "pending"
    /\ olast.calls < MaxOpens
    /\ LET plan == initialize(get_schema_version(schema))
       IN  IF plan = << >>
           THEN /\ olast' = [res |-> "Ok", opens |-> olast.opens + 1,
                             calls |-> olast.calls + 1, from |-> schema]
                /\ osteps' = << >>
           ELSE /\ olast' = [res |-> "pending", opens |-> olast.opens,
                             calls |-> olast.calls + 1, from |-> schema]
                /\ osteps' = plan
    /\ UNCHANGED << storeVars, connVars, procVars, daemonVars, edgeVars, schema, schema0 >>

\* the next statement of create_schema, migrate_schema or set_schema_version
OpenStatement ==
    /\ olast.res = "pending"
    /\ osteps # << >>
    /\ LET st == Head(osteps)
           r == ExecSchemaStmt(schema, st)
       IN  IF st.kind = "unknown_path"
           THEN OpenReturns("InvalidQuery") /\ UNCHANGED schema
           ELSE IF r.err # "none"
           THEN OpenReturns(r.err) /\ UNCHANGED schema
           ELSE /\ schema' = r.schema
                /\ IF Tail(osteps) = << >>
                   THEN OpenReturns("Ok")
                   ELSE osteps' = Tail(osteps) /\ UNCHANGED olast
    /\ UNCHANGED << storeVars, connVars, procVars, daemonVars, edgeVars, schema0 >>

\* the next statement fails on the storage itself (I/O error, disk full, a
\* lock held by another connection), and `?` returns the error
OpenIoError ==
    /\ olast.res = "pending"
    /\ osteps # << >>
    /\ Head(osteps).kind # "unknown_path"
    /\ OpenReturns("io")
    /\ UNCHANGED << storeVars, connVars, procVars, daemonVars, edgeVars, schema, schema0 >>

StoredRows ==
    { {},
      {BoundRow(1, EntryA)},
      {BoundRow(1, EntryA2), BoundRow(3, EntryB)} }

\* what the file may hold before the first open: nothing, a store written at
\* version 1, 2 or 3, or one whose version row is not a known version
PersistedSchemas ==
    { [objects |-> {}, version |-> "none"],
      [objects |-> V1Objects, version |-> "1"],
      [objects |-> AllObjects, version |-> "2"],
      [objects |-> AllObjects, version |-> "3"],
      [objects |-> V1Objects, version |-> "-1"],
      [objects |-> AllObjects, version |-> "junk"] }

InitOpen ==
    /\ schema \in PersistedSchemas
    /\ files \in (IF "files" \in schema.objects THEN StoredRows ELSE {{}})
    /\ usage = {}
    /\ seq = Cardinality(files) * 2
    /\ foreign_keys = FALSE
    /\ ConnIdle
    /\ ProcessorNew
    /\ DaemonNew
    /\ osteps = << >>
    /\ olast = [NoOpen EXCEPT !.from = schema]
    /\ schema0 = [schema |-> schema, files |-> files]
    /\ EdgesNew

NextOpen ==
    \/ open
    \/ OpenStatement
    \/ OpenIoError

SpecOpen == InitOpen /\ [][NextOpen]_vars

----------------------------------------------------------------------------
(* Properties of Database::open *)

\* C14: when the file held a store at version 1 or 2, or nothing, every
\* Database::open that has returned Ok, the first as well as a re-open,
\* has left the version row at 2 and the rows of files as they were before
\* the first open; a re-open of a store at version 2 changes nothing.
C14_MigrationKeepsRows ==
    (olast.res = "Ok" /\ schema0.schema.version \in {"none", "1", "2"}) =>
       /\ schema.version = "2"
       /\ schema.objects = AllObjects
       /\ files = schema0.files
       /\ olast.opens >= 2 => schema = olast.from

\* a store written at version 1 that holds two rows has been opened, which
\* migrated it, and opened again
C14_Witness ==
    /\ schema0.schema = [objects |-> V1Objects, version |-> "1"]
    /\ Cardinality(schema0.files) = 2
    /\ olast.res = "Ok"
    /\ olast.opens = 2
    /\ schema = CurrentSchema
    /\ files = schema0.files

\* C15: Database::open returns a schema error when the persisted version has
\* no migration path to version 2 (it is neither 1 nor 2, nor a fresh file),
\* and an open that failed while migrating has left the version row and the
\* rest of the store as they were before that open.
C15_FailedMigrationLeavesNothing ==
    /\ (olast.res \notin {"none", "pending", "io"}
        /\ olast.from.version \notin {"none", "junk", "1", "2"}) => olast.res = "InvalidQuery"
    /\ (olast.res \notin {"none", "pending", "Ok"}
        /\ get_schema_version(olast.from) # 0) =>
          /\ schema.version = olast.from.version
          /\ schema.objects = olast.from.objects
          /\ files = schema0.files

----------------------------------------------------------------------------
(* The event processor (watcher.rs).                                       *)
(* An event carries n, the number of its arrival at the watcher (0 where   *)
(* arrivals are not counted); the operation made from it carries it as ev. *)

\* IndexingDaemon::new: Duration::from_millis(200)
debounce_duration == 200

\* capacity of the operation queue in the model (IndexingDaemon::new: 10000)
max_queue_size == 2

\* the clock is read at multiples of ClockStep milliseconds, up to MaxTime
ClockStep == 100
MaxTime == 400

Created(p) == [kind |-> "Created", path |-> p, n |-> 0]
Modified(p) == [kind |-> "Modified", path |-> p, n |-> 0]
Deleted(p) == [kind |-> "Deleted", path |-> p, n |-> 0]
Moved(f, t) == [kind |-> "Moved", from |-> f, to |-> t, n |-> 0]

\* variant: a move is held under the path it leaves
EventKeyFrom(e) == IF e.kind = "Moved" THEN e.from ELSE e.path

\* add_event: let path = match &event { ... }
EventKey(e) == IF e.kind = "Moved" THEN e.to ELSE e.path

\* variant: a key that has an entry keeps the time of its first event
InsertKeepingTimestamp(m, k, e, t) ==
    {x \in m : x.key # k}
       \cup {[key |-> k, event |-> e,
              timestamp |-> IF \E x \in m : x.key = k
                            THEN (CHOOSE x \in m : x.key = k).timestamp ELSE t]}

\* variant: the entry is added next to the one the key already has
InsertKeepingOld(m, k, e, t) == m \cup {[key |-> k, event |-> e, timestamp |-> t]}

\* HashMap::insert(path, (event, Instant::now()))
HashMapInsert(m, k, e, t) ==
    {x \in m : x.key # k} \cup {[key |-> k, event |-> e, timestamp |-> t]}

\* variant: an entry is ready only when older than the debounce
ExpiredStrictly(timestamp, t) == t - timestamp > debounce_duration

\* now.duration_since(*timestamp) >= self.debounce_duration
Expired(timestamp, t) == t - timestamp >= debounce_duration

\* what the filesystem may hold at a path
FsKinds == {"absent", "unreadable", "file", "dir"}

\* variant: the entry is built without looking at the filesystem
CreateFileEntryUnchecked(p, kind) ==
    IF Len(p) = 0 THEN << >>
    ELSE << FileEntry(LossyStr(p[Len(p)]), p, 1, 1000, "Regular") >>

\* create_file_entry: None (<< >>) or Some(entry) (<< entry >>); kind is what
\* the filesystem holds at p
create_file_entry(p, kind) ==
    IF kind \in {"absent", "unreadable"} THEN << >>
    ELSE IF Len(p) = 0 THEN << >>
    ELSE << FileEntry(LossyStr(p[Len(p)]), p,
                      IF kind = "dir" THEN 0 ELSE 1, 1000,
                      IF kind = "dir" THEN "Directory" ELSE "Regular") >>

\* event_to_operation: None (<< >>) or Some(operation)
event_to_operation(e, f) ==
    CASE e.kind = "Created" ->
           LET fe == create_file_entry(e.path, f[e.path])
           IN  IF fe = << >> THEN << >>
               ELSE << [kind |-> "Add", entry |-> fe[1], ev |-> e.n] >>
      [] e.kind = "Modified" ->
           LET fe == create_file_entry(e.path, f[e.path])
           IN  IF fe = << >> THEN << >>
               ELSE << [kind |-> "Update", entry |-> fe[1], ev |-> e.n] >>
      [] e.kind = "Deleted" -> << [kind |-> "Delete", path |-> e.path, ev |-> e.n] >>
      [] e.kind = "Moved" -> << [kind |-> "Move", from |-> e.from, to |-> e.to, ev |-> e.n] >>

\* the orders in which a HashMap may be iterated
Orders(S) ==
    {o \in [1..Cardinality(S) -> S] : \A i, j \in 1..Cardinality(S) : i # j => o[i] # o[j]}

\* process_pending: ready_paths
ReadyPaths(m, t) == {x.key : x \in {y \in m : Expired(y.timestamp, t)}}

\* process_pending: the loop over ready_paths, taken in the order given
RECURSIVE Convert(_, _, _)
Convert(m, order, f) ==
    IF order = << >> THEN << >>
    ELSE LET found == {x \in m : x.key = Head(order)}
         IN  (IF found = {} THEN << >>
              ELSE event_to_operation((CHOOSE x \in found : TRUE).event, f))
             \o Convert({x \in m : x.key # Head(order)}, Tail(order), f)

\* variant: the queue is full only when it holds more than max_queue_size
QueueFullAbove(q) == Len(q) > max_queue_size

\* self.operation_queue.len() >= self.max_queue_size
QueueFull(q) == Len(q) >= max_queue_size

Processor == [pending_events |-> pending_events, operation_queue |-> operation_queue,
              burst |-> burst]

NoEvent == [kind |-> "None", n |-> 0]
NoBurst == [event |-> NoEvent, at |-> 0, tight |-> TRUE, len |-> 0]

\* the burst of key k after event e is added at time t
BurstAfter(b, e, t) ==
    [event |-> e, at |-> t,
     tight |-> b.len = 0 \/ (b.tight /\ t - b.at < debounce_duration),
     len |-> Min(b.len + 1, 2)]

ProcCall(op, arg, res) ==
    /\ plast' = [op |-> op, arg |-> arg, res |-> res]
    /\ ppre' = Processor

\* plast and ppre describe the state a call has just left: they are dropped
\* when the clock or the filesystem moves on
ProcForgotten ==
    /\ plast' = NoProcCall
    /\ ppre' = [pending_events |-> {}, operation_queue |-> << >>,
                burst |-> [k \in DOMAIN burst |-> NoBurst]]

add_event(e) ==
    /\ pending_events' = HashMapInsert(pending_events, EventKey(e), e, now)
    /\ burst' = [burst EXCEPT ![EventKey(e)] = BurstAfter(@, e, now)]
    /\ ProcCall("add_event", e, << >>)
    /\ UNCHANGED << operation_queue, now, fs, nonProcVars >>

process_pending ==
    /\ \E order \in Orders(ReadyPaths(pending_events, now)) :
          ProcCall("process_pending", << >>, Convert(pending_events, order, fs))
    /\ pending_events' =
          {x \in pending_events : x.key \notin ReadyPaths(pending_events, now)}
    /\ burst' = [k \in DOMAIN burst |->
                    IF burst[k].len > 0 /\ now - burst[k].at >= debounce_duration
                    THEN NoBurst ELSE burst[k]]
    /\ UNCHANGED << operation_queue, now, fs, nonProcVars >>

enqueue_operation(operation) ==
    /\ IF QueueFull(operation_queue)
       THEN /\ ProcCall("enqueue_operation", operation, "QueueFull")
            /\ UNCHANGED operation_queue
       ELSE /\ ProcCall("enqueue_operation", operation, "Ok")
            /\ operation_queue' = Append(operation_queue, operation)
    /\ UNCHANGED << pending_events, now, fs, burst, nonProcVars >>

\* pop_front: None (<< >>) or Some(operation)
dequeue_operation ==
    /\ IF operation_queue = << >>
       THEN /\ ProcCall("dequeue_operation", << >>, << >>)
            /\ UNCHANGED operation_queue
       ELSE /\ ProcCall("dequeue_operation", << >>, << Head(operation_queue) >>)
            /\ operation_queue' = Tail(operation_queue)
    /\ UNCHANGED << pending_events, now, fs, burst, nonProcVars >>

clear ==
    /\ pending_events' = {}
    /\ operation_queue' = << >>
    /\ burst' = [k \in DOMAIN burst |-> NoBurst]
    /\ ProcCall("clear", << >>, << >>)
    /\ UNCHANGED << now, fs, nonProcVars >>

\* d milliseconds pass
AdvanceBy(d) ==
    /\ now + d <= MaxTime
    /\ now' = now + d
    /\ ProcForgotten
    /\ UNCHANGED << pending_events, operation_queue, fs, burst, nonProcVars >>

\* time passes
Advance == AdvanceBy(ClockStep)

\* something else creates, removes or locks away what is at path p
FsChange(p, kind) ==
    /\ fs[p] # kind
    /\ fs' = [fs EXCEPT ![p] = kind]
    /\ ProcForgotten
    /\ UNCHANGED << pending_events, operation_queue, now, burst, nonProcVars >>

----------------------------------------------------------------------------
(* Specification of the event processor on its own *)

\* the root directory, a path without a final component
Root == << >>

ProcPaths == {PathA, Root}

ProcEvents ==
    { Created(PathA), Modified(PathA), Deleted(PathA), Moved(PathB, PathA),
      Created(Root) }

QueuedOps == {[kind |-> "Delete", path |-> p, ev |-> 0] : p \in {PathA, PathB}}

InitProcessor ==
    /\ StoreEmpty
    /\ foreign_keys = FALSE
    /\ ConnIdle
    /\ StoreOpened
    /\ DaemonNew
    /\ pending_events = {}
    /\ operation_queue = << >>
    /\ now = 0
    /\ fs = [p \in ProcPaths |-> IF p = PathA THEN "file" ELSE "dir"]
    /\ plast = NoProcCall
    /\ ppre = [pending_events |-> {}, operation_queue |-> << >>,
               burst |-> [p \in ProcPaths |-> NoBurst]]
    /\ burst = [p \in ProcPaths |-> NoBurst]

NextProcessor ==
    \/ \E e \in ProcEvents : add_event(e)
    \/ process_pending
    \/ \E o \in QueuedOps : enqueue_operation(o)
    \/ dequeue_operation
    \/ clear
    \/ Advance
    \/ \E kind \in {"absent", "unreadable", "file"} : FsChange(PathA, kind)

SpecProcessor == InitProcessor /\ [][NextProcessor]_vars

\* the clock of test_event_processor_debouncing and of the scenario of the
\* design: events and calls 50 ms apart
HalfStep == 50

NextDebounce ==
    \/ \E e \in ProcEvents : add_event(e)
    \/ process_pending
    \/ AdvanceBy(HalfStep)
    \/ \E kind \in {"absent", "file"} : FsChange(PathA, kind)

SpecDebounce == InitProcessor /\ [][NextDebounce]_vars

----------------------------------------------------------------------------
(* Properties of the event processor *)

\* the path an operation is for (the key its event was held under)
OpKey(op) ==
    CASE op.kind \in {"Add", "Update"} -> op.entry.path
      [] op.kind = "Delete" -> op.path
      [] op.kind = "Move" -> op.to

OpsFor(res, k) == {i \in 1..Len(res) : OpKey(res[i]) = k}

\* the operation is of the kind that event e fixes, on e's paths
FixedBy(op, e) ==
    CASE e.kind = "Created" -> op.kind = "Add" /\ op.entry.path = e.path
      [] e.kind = "Modified" -> op.kind = "Update" /\ op.entry.path = e.path
      [] e.kind = "Deleted" -> op.kind = "Delete" /\ op.path = e.path
      [] e.kind = "Moved" -> op.kind = "Move" /\ op.from = e.from /\ op.to = e.to
      [] OTHER -> FALSE

\* key k had a burst of events, each less than the debounce after the one
\* before, and the running process_pending is the first call made at least
\* the debounce after the last of them
BurstExpired(k) ==
    /\ plast.op = "process_pending"
    /\ ppre.burst[k].len > 0
    /\ ppre.burst[k].tight
    /\ now - ppre.burst[k].at >= debounce_duration

OneOperationFor(k) ==
    /\ Cardinality(OpsFor(plast.res, k)) = 1
    /\ \A i \in OpsFor(plast.res, k) : FixedBy(plast.res[i], ppre.burst[k].event)

\* C11 as stated: after a burst of events on path p, the first process_pending
\* made at least debounce_duration after the last event emits exactly one
\* operation for p, of the kind the last event fixes.
C11_OneOperationAlways ==
    plast.op = "process_pending" =>
       \A k \in DOMAIN ppre.burst : BurstExpired(k) => OneOperationFor(k)

\* p is there for create_file_entry: it exists, its metadata can be read and
\* it has a final component
Readable(k) == fs[k] \notin {"absent", "unreadable"} /\ Len(k) > 0

\* C11 amended: the same, when the last event is Deleted or Moved, or is
\* Created or Modified and p exists, is readable and has a file name at the
\* time of the call; otherwise the call emits no operation for p.
C11_OneOperation ==
    plast.op = "process_pending" =>
       \A k \in DOMAIN ppre.burst :
          BurstExpired(k) =>
             IF ppre.burst[k].event.kind \in {"Created", "Modified"} /\ ~Readable(k)
             THEN OpsFor(plast.res, k) = {}
             ELSE OneOperationFor(k)

\* two or more events on /a/a, the last of them Deleted, while the file is
\* there: the call emitted Delete(/a/a) and nothing else
C11_Witness ==
    /\ BurstExpired(PathA)
    /\ ppre.burst[PathA].len = 2
    /\ ppre.burst[PathA].event = Deleted(PathA)
    /\ fs[PathA] = "file"
    /\ plast.res = << [kind |-> "Delete", path |-> PathA, ev |-> 0] >>

\* C12: the pending map never holds two entries for one path and the queue
\* never holds more than max_queue_size operations.
C12_BoundedMemory ==
    /\ \A x, y \in pending_events : x.key = y.key => x = y
    /\ Len(operation_queue) <= max_queue_size

\* a second event has been added for a path that had one pending, and an
\* enqueue has been refused on a full queue
C12_Witness ==
    /\ \E k \in DOMAIN burst :
          /\ burst[k].len = 2
          /\ Cardinality({x \in pending_events : x.key = k}) = 1
    /\ Cardinality(pending_events) = 2
    /\ plast.op = "enqueue_operation"
    /\ plast.res = "QueueFull"
    /\ Len(operation_queue) = max_queue_size

\* C19: enqueue_operation returns Ok and appends at the tail iff the queue
\* held fewer than max_queue_size operations, else returns QueueFull and
\* leaves the queue as it was; dequeue_operation returns and removes the
\* head (so operations leave in the order they entered), or returns None on
\* an empty queue.
C19_QueueFifo ==
    /\ plast.op = "enqueue_operation" =>
          IF Len(ppre.operation_queue) < max_queue_size
          THEN /\ plast.res = "Ok"
               /\ operation_queue = Append(ppre.operation_queue, plast.arg)
          ELSE /\ plast.res = "QueueFull"
               /\ operation_queue = ppre.operation_queue
    /\ plast.op = "dequeue_operation" =>
          IF ppre.operation_queue = << >>
          THEN plast.res = << >> /\ operation_queue = << >>
          ELSE /\ plast.res = << ppre.operation_queue[1] >>
               /\ operation_queue = Tail(ppre.operation_queue)

\* Delete(/a/b) was enqueued before Delete(/a/a), and the dequeue returned
\* Delete(/a/b)
C19_Witness ==
    /\ plast.op = "dequeue_operation"
    /\ ppre.operation_queue = << [kind |-> "Delete", path |-> PathB, ev |-> 0],
                                 [kind |-> "Delete", path |-> PathA, ev |-> 0] >>
    /\ plast.res = << [kind |-> "Delete", path |-> PathB, ev |-> 0] >>
    /\ Len(operation_queue) = 1

\* C20: process_pending removes every entry whose debounce has elapsed; for
\* a Created or Modified event whose path does not exist or cannot be read
\* it emits nothing, for a Deleted or Moved event it emits Delete or Move
\* whatever the filesystem holds.
C20_VanishedDropped ==
    plast.op = "process_pending" =>
       \A x \in ppre.pending_events :
          now - x.timestamp >= debounce_duration =>
             /\ \A y \in pending_events : y.key # x.key
             /\ (x.event.kind \in {"Created", "Modified"}
                 /\ fs[x.event.path] \in {"absent", "unreadable"})
                   => OpsFor(plast.res, x.key) = {}
             /\ x.event.kind \in {"Deleted", "Moved"} =>
                   \E i \in 1..Len(plast.res) : FixedBy(plast.res[i], x.event)

\* Created(/a/a) expired after the file had vanished: the entry is gone and
\* nothing was emitted
C20_Witness ==
    /\ plast.op = "process_pending"
    /\ \E x \in ppre.pending_events :
          /\ x.event = Created(PathA)
          /\ now - x.timestamp >= debounce_duration
    /\ fs[PathA] = "absent"
    /\ plast.res = << >>
    /\ pending_events = {}

\* key k holds an entry whose last event came less than the debounce before
\* the running call
StillDebouncing(k) ==
    /\ ppre.burst[k].len > 0
    /\ now - ppre.burst[k].at < debounce_duration

\* C30: process_pending emits no operation for, and leaves in the map with
\* event and timestamp as they were, every entry whose last event arrived
\* less than debounce_duration before the call.  After two or more events on
\* /a/a less than the debounce apart, the last of them Modified at 100 ms, a
\* call at 150 ms returns nothing for /a/a and a call at 350 ms (the first
\* since, the file being there) returns the single operation Update(/a/a).
C30_DebounceHolds ==
    plast.op = "process_pending" =>
       /\ \A k \in DOMAIN ppre.burst :
             StillDebouncing(k) =>
                /\ OpsFor(plast.res, k) = {}
                /\ [key |-> k, event |-> ppre.burst[k].event,
                    timestamp |-> ppre.burst[k].at] \in pending_events
                /\ \A x \in pending_events : x.key = k => x \in ppre.pending_events
       /\ (/\ ppre.burst[PathA].len = 2
           /\ ppre.burst[PathA].tight
           /\ ppre.burst[PathA].event = Modified(PathA)
           /\ ppre.burst[PathA].at = 100) =>
             /\ now = 150 => /\ OpsFor(plast.res, PathA) = {}
                             /\ \E x \in pending_events : x.key = PathA
             /\ (now = 350 /\ fs[PathA] = "file") =>
                   /\ Cardinality(OpsFor(plast.res, PathA)) = 1
                   /\ \A i \in OpsFor(plast.res, PathA) :
                         /\ plast.res[i].kind = "Update"
                         /\ plast.res[i].entry.path = PathA
                   /\ \A x \in pending_events : x.key # PathA

\* the call at 150 ms of the scenario: nothing returned, the entry
\* (Modified, 100 ms) still pending
C30_Witness ==
    /\ plast.op = "process_pending"
    /\ now = 150
    /\ ppre.burst[PathA] = [event |-> Modified(PathA), at |-> 100, tight |-> TRUE, len |-> 2]
    /\ plast.res = << >>
    /\ pending_events = {[key |-> PathA, event |-> Modified(PathA), timestamp |-> 100]}

\* the call at 350 ms of the scenario returned Update(/a/a) alone
ScenarioAEnd ==
    /\ plast.op = "process_pending"
    /\ now = 350
    /\ ppre.burst[PathA] = [event |-> Modified(PathA), at |-> 100, tight |-> TRUE, len |-> 2]
    /\ Len(plast.res) = 1
    /\ plast.res[1].kind = "Update"
    /\ pending_events = {}

----------------------------------------------------------------------------
(* The daemon: watcher channel, event loop and shutdown (main.rs) *)

\* number of events the watcher sends
MaxEvents == 3

\* config.performance.batch_size in the model (default 100): smaller than the
\* queue, so that a flush may leave operations behind
batch_size == 1

\* the loop of the drain tick: processor.add_event(event) for each event
\* received, in the order received
RECURSIVE AddAll(_, _, _)
AddAll(m, events, t) ==
    IF events = << >> THEN m
    ELSE AddAll(HashMapInsert(m, EventKey(Head(events)), Head(events), t), Tail(events), t)

\* variant: an operation is put at the head of the queue
RECURSIVE EnqueueAllAtHead(_, _)
EnqueueAllAtHead(q, operations) ==
    IF operations = << >> THEN q
    ELSE EnqueueAllAtHead(IF QueueFull(q) THEN q ELSE << Head(operations) >> \o q,
                          Tail(operations))

\* variant: a full queue gives up its oldest operation for the new one
RECURSIVE EnqueueAllDropOldest(_, _)
EnqueueAllDropOldest(q, operations) ==
    IF operations = << >> THEN q
    ELSE EnqueueAllDropOldest(Append(IF QueueFull(q) THEN Tail(q) ELSE q, Head(operations)),
                              Tail(operations))

\* the loop of the drain tick: processor.enqueue_operation(operation) for
\* each operation, an Err being logged and the operation dropped
RECURSIVE EnqueueAll(_, _)
EnqueueAll(q, operations) ==
    IF operations = << >> THEN q
    ELSE EnqueueAll(IF QueueFull(q) THEN q ELSE Append(q, Head(operations)),
                    Tail(operations))

\* IndexingDaemon::shutdown has returned
exited == mainpc = "done"

\* variant: the paths are watched from the construction of the watcher on
WatchingSinceNew == mainpc \in {"scan", "index", "watch", "top", "select", "left"}

\* the watcher has been given its paths and the process is alive
Watching == mainpc \in {"top", "select", "left"}

\* what a step of main leaves in dlast
DaemonStep(step, operations, failed) ==
    dlast' = [step |-> step, ops |-> operations, queue |-> operation_queue,
              committed |-> Len(committed), failed |-> failed]

\* the notify callback: convert_event yields Created, Modified or Deleted,
\* which is sent on the channel
WatcherSend(e) ==
    /\ Watching
    /\ arrived < MaxEvents
    /\ arrived' = arrived + 1
    /\ channel' = Append(channel, [e EXCEPT !.n = arrived + 1])
    /\ UNCHANGED << storeVars, connVars, procVars, openVars, edgeVars, running, mainpc, dlast,
                    committed >>

\* while running.load(Ordering::Relaxed): the loop goes on to select!, or is left
LoopCheck ==
    /\ mainpc = "top"
    /\ mainpc' = IF running THEN "select" ELSE "left"
    /\ UNCHANGED << storeVars, connVars, procVars, openVars, edgeVars, channel, running, dlast,
                    arrived, committed >>

\* the arm of select! behind sleep(50 ms)
DrainTick ==
    /\ mainpc = "select"
    /\ mainpc' = "top"
    /\ LET added == AddAll(pending_events, channel, now)
           ready == ReadyPaths(added, now)
       IN  /\ \E order \in Orders(ready) :
                 LET operations == Convert(added, order, fs)
                 IN  /\ operation_queue' = EnqueueAll(operation_queue, operations)
                     /\ DaemonStep("drain", operations, FALSE)
           /\ pending_events' = {x \in added : x.key \notin ready}
    /\ channel' = << >>
    /\ UNCHANGED << storeVars, connVars, openVars, edgeVars, now, fs, plast, ppre, burst,
                    running, arrived, committed >>

\* variant: a batch that is reported as failed is committed all the same
ExecuteBatchDespite(operations, fails) ==
    LET r == ApplyAll(Store, operations, foreign_keys)
    IN  IF operations = << >> \/ r.err # "none"
        THEN UNCHANGED << storeVars, committed >>
        ELSE /\ SetStore(r.db)
             /\ committed' = committed \o operations

\* variant: a batch that succeeds on a retry is committed by both attempts
ExecuteBatchTwice(operations, fails) ==
    LET r == ApplyAll(Store, operations, foreign_keys)
    IN  IF operations = << >> \/ fails \/ r.err # "none"
        THEN UNCHANGED << storeVars, committed >>
        ELSE /\ SetStore(r.db)
             /\ committed' = committed \o operations \o operations

\* db.execute_batch(&operations) as the daemon sees it: only its result and
\* the rows it commits; fails is a failure of the storage or a store that
\* stayed busy through all retries
ExecuteBatch(operations, fails) ==
    LET r == ApplyAll(Store, operations, foreign_keys)
    IN  IF operations = << >> \/ fails \/ r.err # "none"
        THEN UNCHANGED << storeVars, committed >>
        ELSE /\ SetStore(r.db)
             /\ committed' = committed \o operations

\* whether execute_batch(operations) returns Err
BatchFailed(operations, fails) ==
    operations # << >> /\ (fails \/ ApplyAll(Store, operations, foreign_keys).err # "none")

\* variant: the flush takes everything the queue holds
DequeuedAll(q) == q

\* the flush arm: for _ in 0..batch_size { dequeue_operation() or break }
Dequeued(q) == SubSeq(q, 1, Min(batch_size, Len(q)))

\* the arm of select! behind flush_timer.tick()
FlushTick ==
    /\ mainpc = "select"
    /\ mainpc' = "top"
    /\ LET operations == Dequeued(operation_queue)
       IN  /\ operation_queue' =
                 SubSeq(operation_queue, Len(operations) + 1, Len(operation_queue))
           /\ \E fails \in BOOLEAN :
                 /\ ExecuteBatch(operations, fails)
                 /\ DaemonStep("flush", operations, BatchFailed(operations, fails))
    /\ UNCHANGED << connVars, openVars, edgeVars, pending_events, now, fs, plast, ppre, burst,
                    channel, running, arrived >>

\* the ctrlc handler: r.store(false, Ordering::Relaxed)
Signal ==
    /\ mainpc \notin {"load", "handler", "done", "failed"}
    /\ running
    /\ running' = FALSE
    /\ UNCHANGED << storeVars, connVars, procVars, openVars, edgeVars, channel, mainpc, dlast,
                    arrived, committed >>

\* variant: shutdown takes one batch from the queue, as a flush does
DrainQueueOnce(q) == SubSeq(q, 1, Min(batch_size, Len(q)))

\* shutdown: while let Some(op) = processor.dequeue_operation() { push }
DrainQueue(q) == q

\* IndexingDaemon::shutdown, after run has left its loop
shutdown ==
    /\ mainpc = "left"
    /\ mainpc' = "done"
    /\ running' = FALSE
    /\ LET operations == DrainQueue(operation_queue)
       IN  /\ operation_queue' =
                 SubSeq(operation_queue, Len(operations) + 1, Len(operation_queue))
           /\ \E fails \in BOOLEAN :
                 /\ ExecuteBatch(operations, fails)
                 /\ DaemonStep("shutdown", operations, BatchFailed(operations, fails))
    /\ UNCHANGED << connVars, openVars, edgeVars, pending_events, now, fs, plast, ppre, burst,
                    channel, arrived >>

DaemonPaths == {PathA, PathB}

DaemonEvents == {Created(PathA), Deleted(PathA), Modified(PathB)}

InitDaemon ==
    /\ StoreEmpty
    /\ foreign_keys = FALSE
    /\ ConnIdle
    /\ StoreOpened
    /\ DaemonNew
    /\ pending_events = {}
    /\ operation_queue = << >>
    /\ now = 0
    /\ fs = [p \in DaemonPaths |-> "file"]
    /\ plast = NoProcCall
    /\ ppre = [pending_events |-> {}, operation_queue |-> << >>,
               burst |-> [p \in DaemonPaths |-> NoBurst]]
    /\ burst = [p \in DaemonPaths |-> NoBurst]

NextDaemon ==
    \/ \E e \in DaemonEvents : WatcherSend(e)
    \/ LoopCheck
    \/ DrainTick
    \/ FlushTick
    \/ Signal
    \/ shutdown
    \/ Advance
    \/ \E kind \in {"absent", "file"} : FsChange(PathA, kind)

SpecDaemon == InitDaemon /\ [][NextDaemon]_vars

\* the same with what the runtime gives: the flag is read when the loop comes
\* round, one of the two timers of select! fires, and main calls shutdown
\* when run has returned
SpecDaemonFair ==
    /\ SpecDaemon
    /\ WF_vars(LoopCheck)
    /\ WF_vars(DrainTick \/ FlushTick)
    /\ WF_vars(shutdown)

----------------------------------------------------------------------------
(* main, Commands::Start: from the command line to the loop of run *)

\* what the initial scan may return, and whether it met an entry it could
\* not read (Scanner::scan never fails)
ScanOutcomes == {<< >>, << EntryA, EntryB >>}

\* let config = Config::load_from_file(&config_path)?
LoadConfig ==
    /\ mainpc = "load"
    /\ \E ok \in BOOLEAN :
          /\ mainpc' = IF ok THEN "handler" ELSE "failed"
          /\ DaemonStep("load", << >>, ~ok)
    /\ UNCHANGED << storeVars, connVars, procVars, openVars, edgeVars, channel, running, arrived,
                    committed >>

\* ctrlc::set_handler(...)?
SetHandler ==
    /\ mainpc = "handler"
    /\ \E ok \in BOOLEAN :
          /\ mainpc' = IF ok THEN "new" ELSE "failed"
          /\ DaemonStep("set_handler", << >>, ~ok)
    /\ UNCHANGED << storeVars, connVars, procVars, openVars, edgeVars, channel, running, arrived,
                    committed >>

\* IndexingDaemon::new(config).await?: create_dir_all(parent)?,
\* Database::open(&db_path)?, FilesystemWatcher::new(&config)?
IndexingDaemonNew ==
    /\ mainpc = "new"
    /\ \E r \in {"Ok", "create_dir_all", "open", "watcher_new"} :
          IF r = "Ok"
          THEN mainpc' = "scan" /\ DaemonStep("new", << >>, FALSE)
          ELSE mainpc' = "failed" /\ DaemonStep(r, << >>, TRUE)
    /\ UNCHANGED << storeVars, connVars, procVars, openVars, edgeVars, channel, running, arrived,
                    committed >>

\* initialize: let entries = scanner.scan(); the entries wait in dlast.queue,
\* as Add operations, to be indexed
InitialScan ==
    /\ mainpc = "scan"
    /\ mainpc' = "index"
    /\ \E entries \in ScanOutcomes, errors \in BOOLEAN :
          dlast' = [step |-> "scan", ops |-> << >>,
                    queue |-> [i \in 1..Len(entries) |->
                                 [kind |-> "Add", entry |-> entries[i], ev |-> 0]],
                    committed |-> Len(committed), failed |-> errors]
    /\ UNCHANGED << storeVars, connVars, procVars, openVars, edgeVars, channel, running, arrived,
                    committed >>

\* initialize: for chunk in entries.chunks(batch_size) {
\*     self.db.execute_batch(&operations)? }
IndexChunk ==
    /\ mainpc = "index"
    /\ LET chunk == SubSeq(dlast.queue, 1, Min(batch_size, Len(dlast.queue)))
           rest == SubSeq(dlast.queue, Len(chunk) + 1, Len(dlast.queue))
       IN  IF chunk = << >>
           THEN /\ mainpc' = "watch"
                /\ UNCHANGED << storeVars, committed, dlast >>
           ELSE \E fails \in BOOLEAN :
                   /\ ExecuteBatch(chunk, fails)
                   /\ mainpc' = IF BatchFailed(chunk, fails) THEN "failed" ELSE "index"
                   /\ dlast' = [step |-> "index", ops |-> chunk, queue |-> rest,
                                committed |-> Len(committed),
                                failed |-> BatchFailed(chunk, fails)]
    /\ UNCHANGED << connVars, procVars, openVars, edgeVars, channel, running, arrived >>

\* initialize: let errors = watcher.watch_paths(&paths), printed as warnings
WatchPaths ==
    /\ mainpc = "watch"
    /\ mainpc' = "top"
    /\ \E errors \in BOOLEAN : DaemonStep("watch_paths", << >>, errors)
    /\ UNCHANGED << storeVars, connVars, procVars, openVars, edgeVars, channel, running, arrived,
                    committed >>

InitMain ==
    /\ StoreEmpty
    /\ foreign_keys = FALSE
    /\ ConnIdle
    /\ StoreOpened
    /\ channel = << >>
    /\ running = TRUE
    /\ mainpc = "load"
    /\ dlast = NoStep
    /\ arrived = 0
    /\ committed = << >>
    /\ pending_events = {}
    /\ operation_queue = << >>
    /\ now = 0
    /\ fs = [p \in DaemonPaths |-> "file"]
    /\ plast = NoProcCall
    /\ ppre = [pending_events |-> {}, operation_queue |-> << >>,
               burst |-> [p \in DaemonPaths |-> NoBurst]]
    /\ burst = [p \in DaemonPaths |-> NoBurst]

NextMain ==
    \/ LoadConfig
    \/ SetHandler
    \/ IndexingDaemonNew
    \/ InitialScan
    \/ IndexChunk
    \/ WatchPaths
    \/ \E e \in DaemonEvents : WatcherSend(e)
    \/ LoopCheck
    \/ DrainTick
    \/ FlushTick
    \/ Signal
    \/ shutdown
    \/ Advance
    \/ \E kind \in {"absent", "file"} : FsChange(PathA, kind)

SpecMain == InitMain /\ [][NextMain]_vars

----------------------------------------------------------------------------
(* Properties of the daemon *)

\* C13: of two operations on one path that the daemon has committed to the
\* store, the one committed first was made from the event that arrived first.
C13_PerPathOrder ==
    \A i, j \in 1..Len(committed) :
       (i < j /\ OpKey(committed[i]) = OpKey(committed[j]))
          => committed[i].ev < committed[j].ev

\* an Add and then a Delete of /a/a, made from two events on it, have been
\* committed, the record is gone, and the daemon has shut down
C13_Witness ==
    /\ exited
    /\ Len(committed) >= 2
    /\ \E i, j \in 1..Len(committed) :
          /\ i < j
          /\ OpKey(committed[i]) = PathA
          /\ OpKey(committed[j]) = PathA
          /\ committed[i].kind = "Add"
          /\ committed[j].kind = "Delete"
    /\ ~HasPath(Store, to_string_lossy(PathA))

\* the loop of run goes on: it is left only once the running flag is false
LoopGoesOn == mainpc \in {"top", "select"} \/ (mainpc = "left" /\ ~running)

\* how many of the operations the last drain step emitted found room
Fitting ==
    IF Len(dlast.queue) >= max_queue_size THEN 0
    ELSE Min(Len(dlast.ops), max_queue_size - Len(dlast.queue))

\* the operations of the last drain step that found the queue full
Refused == SubSeq(dlast.ops, Fitting + 1, Len(dlast.ops))

\* C21: after a drain step the queue is the queue before it followed by the
\* emitted operations that found room, in the order emitted; an operation
\* that found the queue full is in the queue nowhere, its event is no longer
\* pending, and the loop goes on.
C21_LossyBackpressure ==
    dlast.step = "drain" =>
       /\ Len(dlast.queue) <= max_queue_size
       /\ operation_queue = dlast.queue \o SubSeq(dlast.ops, 1, Fitting)
       /\ \A i \in 1..Len(dlast.ops) :
             \A x \in pending_events : x.event.n # dlast.ops[i].ev
       /\ \A i \in 1..Len(Refused) :
             \A j \in 1..Len(operation_queue) : operation_queue[j].ev # Refused[i].ev
       /\ ~dlast.failed
       /\ LoopGoesOn

\* a drain step emitted two operations onto a queue with room for one: the
\* first was enqueued, the second was refused and is gone
C21_Witness ==
    /\ dlast.step = "drain"
    /\ Len(dlast.queue) = max_queue_size - 1
    /\ Len(dlast.ops) = 2
    /\ operation_queue = Append(dlast.queue, dlast.ops[1])
    /\ pending_events = {}
    /\ mainpc = "select"

LeavesBySubmission ==
    \A i \in 1..Len(operation_queue) :
       (\A j \in 1..Len(operation_queue') : operation_queue'[j] # operation_queue[i])
          => /\ dlast'.step \in {"flush", "shutdown"}
             /\ \E k \in 1..Len(dlast'.ops) : dlast'.ops[k] = operation_queue[i]

\* C23: once the running flag is false, shutdown eventually returns; when it
\* has, the queue is empty and everything the queue held was handed to
\* execute_batch, in queue order, as one batch; and no operation ever leaves
\* the queue without being handed to execute_batch.
C23_Shutdown ==
    /\ (~running) ~> exited
    /\ [](exited => /\ operation_queue = << >>
                    /\ dlast.step = "shutdown"
                    /\ dlast.ops = dlast.queue)
    /\ [][LeavesBySubmission]_vars

\* shutdown found more operations in the queue than a flush takes and
\* committed them all as one batch
C23_Witness ==
    /\ exited
    /\ ~running
    /\ dlast.step = "shutdown"
    /\ Len(dlast.queue) > batch_size
    /\ ~dlast.failed
    /\ committed = dlast.queue
    /\ operation_queue = << >>

\* the steps whose failure is a configuration error or a store-open error
ConfigOrOpen == {"load", "open"}

\* the steps that fail with a failed store batch, a path that cannot be
\* watched, an entry the scan cannot read or a full queue
Absorbed == {"index", "flush", "shutdown", "watch_paths", "scan", "drain"}

\* C29: main stops with an error only on a configuration error or a
\* store-open error; after a failed store batch, a path that cannot be
\* watched, a scan error or a full queue, main has not stopped with an error.
C29_OnlyConfigAndOpenFatal ==
    /\ mainpc = "failed" => dlast.step \in ConfigOrOpen
    /\ (dlast.failed /\ dlast.step \in Absorbed) => mainpc # "failed"

\* what does hold: failures in the loop of run, in shutdown, in the scan and
\* in watch_paths do not stop main
AbsorbedOutsideIndexing ==
    (dlast.failed /\ dlast.step \in Absorbed \ {"index"}) => mainpc # "failed"

----------------------------------------------------------------------------
(* Specification of one connection making single calls and small batches,  *)
(* with a destination whose last component is not valid UTF-8              *)

PathBadName == << <<"a">>, <<"<FF>">> >>

FramePaths == {PathA, PathB, PathBadName}

FrameBatches ==
    { <<Update(EntryA2)>>,
      <<Add(EntryA), Update(EntryA2)>>,
      <<Add(EntryB), Move(PathB, PathA)>> }

NextFrame ==
    \/ \E e \in Entries : insert_file(e)
    \/ \E e \in Entries : update_file(e)
    \/ \E p \in FramePaths : delete_file(p)
    \/ \E f \in Paths, t \in FramePaths : move_file(f, t)
    \/ \E o \in FrameBatches : execute_batch(o)
    \/ TxStatement
    \/ TxCommit

SpecFrame == Init /\ [][NextFrame]_vars

----------------------------------------------------------------------------
(* Frame properties of the store's operations *)

\* the record of db at path p with the five overwritten columns taken from e
Overwritten(db, p, e) ==
    [RowOf(db, p) EXCEPT !.filename = e.filename,
                         !.size = SizeAsI64(e.size),
                         !.modified_time = system_time_to_timestamp(e.modified_time),
                         !.file_type = as_str(e.file_type),
                         !.indexed_time = system_time_to_timestamp(e.indexed_time)]

\* the store is pre with its record at e's path overwritten from e: same id,
\* same number of records, every other record and usage_stats as they were
OnlyOverwritten(e) ==
    LET p == to_string_lossy(e.path) IN
    /\ files = (pre.files \ {RowOf(pre, p)}) \cup {Overwritten(pre, p, e)}
    /\ Cardinality(files) = Cardinality(pre.files)
    /\ RowOf(Store, p).id = RowOf(pre, p).id
    /\ usage = pre.usage

\* C16: an upsert of an entry whose path has a record (update_file, or a
\* batch of one Update, or of an Add and an Update of that path) overwrites
\* filename, size, modified_time, file_type and indexed_time of that record
\* and nothing else.
C16_UpsertFrame ==
    /\ \A e \in Entries :
          (last.op = "update_file" /\ last.arg = e /\ last.res = "Ok"
           /\ HasPath(pre, to_string_lossy(e.path))) => OnlyOverwritten(e)
    /\ (BatchDone /\ last.res = "Ok" /\ HasPath(pre, to_string_lossy(PathA))
        /\ last.arg \in {<<Update(EntryA2)>>, <<Add(EntryA), Update(EntryA2)>>})
          => OnlyOverwritten(EntryA2)

\* update_file(EntryA2) on a store holding EntryA under id 1 and another record
C16_Witness ==
    /\ last.op = "update_file"
    /\ last.arg = EntryA2
    /\ last.res = "Ok"
    /\ BoundRow(1, EntryA) \in pre.files
    /\ BoundRow(1, EntryA2) \in files
    /\ Cardinality(files) = 2

\* the record of db at from, moved to path to
MovedRow(db, from, to) ==
    [RowOf(db, to_string_lossy(from)) EXCEPT
        !.path = to_string_lossy(to),
        !.filename = LossyStr(to[Len(to)])]

\* C17: move_file(from, to) with a record at from and none at to gives that
\* record the path to and the last component of to as filename and changes
\* nothing else; move_file and delete_file on a path without a record return
\* Ok and change nothing.
C17_MoveFrame ==
    /\ last.op = "move_file" =>
          LET from == last.arg[1]
              to == last.arg[2]
          IN  /\ (HasPath(pre, to_string_lossy(from)) /\ ~HasPath(pre, to_string_lossy(to)))
                    => /\ last.res = "Ok"
                       /\ files = (pre.files \ {RowOf(pre, to_string_lossy(from))})
                                     \cup {MovedRow(pre, from, to)}
                       /\ usage = pre.usage
              /\ ~HasPath(pre, to_string_lossy(from))
                    => last.res = "Ok" /\ files = pre.files /\ usage = pre.usage
    /\ (last.op = "delete_file" /\ ~HasPath(pre, to_string_lossy(last.arg)))
          => last.res = "Ok" /\ files = pre.files /\ usage = pre.usage

\* C18: insert_file on a path that has a record, and move_file onto a path
\* that has another record, return a constraint error and leave the store
\* as it was; the batch [Add(/a/b), Move(/a/b, /a/a)] on a store with a
\* record at /a/a fails the same way with nothing applied; a successful
\* insert_file returns the id of the new record, which no other record has.
C18_Conflicts ==
    /\ last.op = "insert_file" =>
          LET p == to_string_lossy(last.arg.path) IN
          IF HasPath(pre, p)
          THEN last.res = "constraint" /\ Store = pre
          ELSE /\ last.res = "Ok"
               /\ HasPath(Store, p)
               /\ RowOf(Store, p).id = last.val
               /\ \A r \in files : r.path # p => r.id # last.val
               /\ files = pre.files \cup {BoundRow(last.val, last.arg)}
    /\ (last.op = "move_file" /\ last.arg[1] # last.arg[2]
        /\ HasPath(pre, to_string_lossy(last.arg[1]))
        /\ HasPath(pre, to_string_lossy(last.arg[2])))
          => last.res = "constraint" /\ Store = pre
    /\ (BatchDone /\ last.arg = <<Add(EntryB), Move(PathB, PathA)>>
        /\ HasPath(pre, to_string_lossy(PathA)))
          => last.res = "constraint" /\ Store = pre

\* insert_file of an entry whose path has a record was refused, on a store
\* holding two records
C18_Witness ==
    /\ last.op = "insert_file"
    /\ last.res = "constraint"
    /\ HasPath(pre, to_string_lossy(last.arg.path))
    /\ Cardinality(files) = 2
    /\ Store = pre

----------------------------------------------------------------------------
(* Glob patterns (crate glob) and the scanner (scanner.rs).                *)
(* fs gives what is found at each path: "absent", "file" (a regular file), *)
(* "dir", "symlink", "unreadable" (listed by its directory but gone, or    *)
(* barred, when its metadata is read), "denied" (a directory that cannot   *)
(* be listed), "gone" (a directory removed after it was listed); for the   *)
(* narrower rule of application roots also "elf" (a regular file that      *)
(* begins with 7F 45 4C 46), "marked" (one with the text AppImage in its   *)
(* first 1024 bytes) and "locked" (one that cannot be opened).             *)
(* The walk yields items: an entry made, or an error.                      *)

\* Pattern::new(pattern).ok(): of the patterns used here, one with an
\* unclosed [ is refused
PatternNew(pat) == \A i \in 1..Len(pat) : pat[i] # "["

\* Pattern::matches(str): * is any run of characters, ? is any one character
RECURSIVE GlobMatches(_, _)
GlobMatches(pat, str) ==
    IF pat = << >> THEN str = << >>
    ELSE IF Head(pat) = "*"
         THEN GlobMatches(Tail(pat), str) \/ (str # << >> /\ GlobMatches(pat, Tail(str)))
         ELSE /\ str # << >>
              /\ (Head(pat) = "?" \/ Head(pat) = Head(str))
              /\ GlobMatches(Tail(pat), Tail(str))

\* some pattern of the list compiles and matches the name
MatchesAny(exclude, name) ==
    \E i \in 1..Len(exclude) :
       PatternNew(exclude[i]) /\ GlobMatches(exclude[i], LossyStr(name))

\* variant: the root is tested like any other entry
ShouldIncludeAlsoRoot(path, exclude, root_path) ==
    Len(path) = 0 \/ ~MatchesAny(exclude, path[Len(path)])

\* Scanner::should_include_entry
should_include_entry(path, exclude, root_path) ==
    IF path = root_path THEN TRUE
    ELSE IF Len(path) = 0 THEN TRUE
    ELSE ~MatchesAny(exclude, path[Len(path)])

RegularKinds == {"file", "elf", "marked", "locked"}

\* entry.metadata() is Ok
MetadataOk(kind) == kind \notin {"absent", "unreadable", "gone"}

\* variant: a directory that cannot be listed is passed over in silence
ListingNeverFails(kind) == FALSE

\* fs::read_dir of a directory fails: the walk yields Err
ListingFails(kind) == kind \in {"denied", "gone"}

\* Scanner::extract_file_entry: None (<< >>) or Some(entry)
extract_file_entry(path, kind) ==
    IF Len(path) = 0 THEN << >>
    ELSE IF ~MetadataOk(kind) THEN << >>
    ELSE << FileEntry(LossyStr(path[Len(path)]), path,
                      IF kind \in RegularKinds THEN 1 ELSE 0, 1000,
                      IF kind \in {"dir", "denied"} THEN "Directory"
                      ELSE IF kind = "symlink" THEN "Symlink" ELSE "Regular") >>

EntryItem(path, made) == [ok |-> TRUE, path |-> path, entry |-> made]
ErrorItem(path) == [ok |-> FALSE, path |-> path, entry |-> << >>]

\* what read_dir(p) lists
ChildrenOf(p, f) ==
    {q \in DOMAIN f : Len(q) = Len(p) + 1 /\ SubSeq(q, 1, Len(p)) = p /\ f[q] # "absent"}

\* scan_directory: the loop over WalkDir::new(root).follow_links(false)
\* .filter_entry(should_include_entry), from entry p on
RECURSIVE WalkDir(_, _, _, _)
WalkDir(p, root, exclude, f) ==
    IF f[p] = "absent" THEN {ErrorItem(p)}
    ELSE IF ~should_include_entry(p, exclude, root) THEN {}
    ELSE (IF extract_file_entry(p, f[p]) = << >> THEN {}
          ELSE {EntryItem(p, extract_file_entry(p, f[p]))})
         \cup (IF ListingFails(f[p]) THEN {ErrorItem(p)} ELSE {})
         \cup (IF f[p] = "dir"
               THEN UNION {WalkDir(q, root, exclude, f) : q \in ChildrenOf(p, f)}
               ELSE {})

\* Scanner::scan, one user root: if path.exists() { scan_directory(&path) }
scan_directory(root, exclude) ==
    /\ scanned' = [op |-> "scan_directory", root |-> root, exclude |-> exclude,
                   items |-> IF fs[root] = "absent" THEN {}
                             ELSE WalkDir(root, root, exclude, fs)]
    /\ UNCHANGED << storeVars, connVars, procVars, daemonVars, openVars, wlast >>

\* the entries returned and ScanProgress.errors_encountered
Emitted == {i.path : i \in {j \in scanned.items : j.ok}}
errors_encountered == Cardinality({i \in scanned.items : ~i.ok})

Str_desktop == << "d", "e", "s", "k", "t", "o", "p" >>
Str_AppImage == << "A", "p", "p", "I", "m", "a", "g", "e" >>

\* Path::extension of a file name: None (<< >>) or Some(extension); a name
\* that only begins with a dot has none
Extension(name) ==
    LET dots == {i \in 1..Len(name) : name[i] = "."}
    IN  IF dots = {} THEN << >>
        ELSE LET k == CHOOSE i \in dots : \A j \in dots : j <= i
             IN  IF k = 1 THEN << >> ELSE << SubSeq(name, k + 1, Len(name)) >>

\* str::contains
Contains(str, sub) ==
    \E i \in 1..(Len(str) - Len(sub) + 1) : SubSeq(str, i, i + Len(sub) - 1) = sub

\* Scanner::is_appimage_file: the first 1024 bytes hold the text AppImage or
\* begin with the ELF magic; false when the file cannot be opened
is_appimage_file(kind) == kind \in {"elf", "marked"}

\* variant: extension, name and content are three tests of which any may pass
AppIncludesAnyOf(path, kind) ==
    IF kind \in RegularKinds \cup {"unreadable"}
    THEN \/ Extension(path[Len(path)]) \in {<< Str_desktop >>, << Str_AppImage >>}
         \/ Contains(LossyStr(path[Len(path)]), Str_AppImage)
         \/ is_appimage_file(kind)
    ELSE TRUE

\* scan_application_directory: let should_include = ...
AppIncludes(path, kind) ==
    IF kind \in RegularKinds \cup {"unreadable"}
    THEN IF Len(path) = 0 THEN FALSE
         ELSE IF Extension(path[Len(path)]) # << >>
              THEN Extension(path[Len(path)]) \in {<< Str_desktop >>, << Str_AppImage >>}
              ELSE \/ Contains(LossyStr(path[Len(path)]), Str_AppImage)
                   \/ is_appimage_file(kind)
    ELSE TRUE

\* scan_application_directory: the loop over WalkDir::new(path)
\* .follow_links(false), from entry p on
RECURSIVE WalkApp(_, _)
WalkApp(p, f) ==
    IF f[p] = "absent" THEN {ErrorItem(p)}
    ELSE (IF AppIncludes(p, f[p]) /\ extract_file_entry(p, f[p]) # << >>
          THEN {EntryItem(p, extract_file_entry(p, f[p]))}
          ELSE {})
         \cup (IF ListingFails(f[p]) THEN {ErrorItem(p)} ELSE {})
         \cup (IF f[p] = "dir"
               THEN UNION {WalkApp(q, f) : q \in ChildrenOf(p, f)}
               ELSE {})

\* Scanner::scan, one application root:
\* if path.exists() { scan_application_directory(&path) }
scan_application_directory(root) ==
    /\ scanned' = [op |-> "scan_application_directory", root |-> root,
                   exclude |-> << >>,
                   items |-> IF fs[root] = "absent" THEN {} ELSE WalkApp(root, fs)]
    /\ UNCHANGED << storeVars, connVars, procVars, daemonVars, openVars, wlast >>

----------------------------------------------------------------------------
(* Specification of the scanner: a tree is chosen, then scanned *)

\* /r with visible.txt, .hidden (and a file in it) and node_modules/x, named
\* v.t, .h, s.desktop, nm and x
NameR == << "r" >>
NameV == << "v", ".", "t" >>
NameH == << ".", "h" >>
NameS == << "s", "." >> \o Str_desktop
NameN == << "n", "m" >>
NameX == << "x" >>

GlobDotStar == << ".", "*" >>
GlobStar == << "*" >>
GlobUnclosed == << "[" >>

ExcludeLists == { << >>, << GlobDotStar, NameN >>, << GlobStar >>, << GlobUnclosed >> }

\* a tree is a filesystem in which what has no directory above it is absent
IsTree(f) ==
    \A q \in DOMAIN f :
       (Len(q) > 0 /\ f[q] # "absent") => f[SubSeq(q, 1, Len(q) - 1)] \in {"dir", "denied"}

UserTrees ==
    { f \in { (<< >> :> "dir") @@ (<< NameR >> :> r) @@ (<< NameR, NameV >> :> v)
              @@ (<< NameR, NameH >> :> h) @@ (<< NameR, NameH, NameS >> :> c)
              @@ (<< NameR, NameN >> :> n) @@ (<< NameR, NameN, NameX >> :> x) :
                 r \in {"absent", "file", "dir", "denied"},
                 v \in {"absent", "file", "unreadable", "symlink"},
                 h \in {"absent", "file", "dir", "denied"},
                 c \in {"absent", "file"},
                 n \in {"absent", "dir", "gone"},
                 x \in {"absent", "file", "unreadable"} } : IsTree(f) }

UserRoots == { << >>, << NameR >>, << NameR, NameH >> }

\* /o with a.desktop, b.AppImage, c, AppImage.b, e.so and d/a.desktop
NameO == << "o" >>
NameA == << "a", "." >> \o Str_desktop
NameB == << "b", "." >> \o Str_AppImage
NameC == << "c" >>
NameAb == Str_AppImage \o << ".", "b" >>
NameE == << "e", ".", "s", "o" >>
NameD == << "d" >>

AppTrees ==
    { f \in { (<< >> :> "dir") @@ (<< NameO >> :> o) @@ (<< NameO, NameA >> :> a) @@ (<< NameO, NameB >> :> b)
              @@ (<< NameO, NameC >> :> c) @@ (<< NameO, NameAb >> :> ab)
              @@ (<< NameO, NameE >> :> e) @@ (<< NameO, NameD >> :> dd)
              @@ (<< NameO, NameD, NameA >> :> da) :
                 o \in {"absent", "dir"},
                 a \in {"absent", "file"},
                 b \in {"absent", "file", "unreadable"},
                 c \in {"absent", "file", "elf", "marked", "locked"},
                 ab \in {"absent", "file"},
                 e \in {"absent", "file", "elf"},
                 dd \in {"absent", "dir", "denied", "symlink"},
                 da \in {"absent", "file"} } : IsTree(f) }

InitScan ==
    /\ StoreEmpty
    /\ foreign_keys = FALSE
    /\ ConnIdle
    /\ StoreOpened
    /\ DaemonNew
    /\ pending_events = {}
    /\ operation_queue = << >>
    /\ now = 0
    /\ fs \in UserTrees \cup AppTrees
    /\ plast = NoProcCall
    /\ ppre = [pending_events |-> {}, operation_queue |-> << >>, burst |-> << >>]
    /\ burst = << >>

NextScan ==
    \/ \E root \in UserRoots \cap DOMAIN fs, exclude \in ExcludeLists :
          scan_directory(root, exclude)
    \/ \E root \in {<< NameO >>} \cap DOMAIN fs : scan_application_directory(root)

SpecScan == InitScan /\ [][NextScan]_vars

----------------------------------------------------------------------------
(* Properties of the scanner *)

Below(q, r) == Len(q) > Len(r) /\ SubSeq(q, 1, Len(r)) = r

\* some component of q below r matches a glob of X
Pruned(q, r, X) == \E i \in (Len(r) + 1)..Len(q) : MatchesAny(X, q[i])

\* q exists and every directory from r down to it can be listed
Reached(q, r) ==
    /\ q = r \/ Below(q, r)
    /\ fs[q] # "absent"
    /\ \A i \in Len(r)..(Len(q) - 1) : fs[SubSeq(q, 1, i)] = "dir"

UserScanDone == scanned.op = "scan_directory" /\ fs[scanned.root] # "absent"

\* C24 as stated: scanning a user root r with exclude globs X emits an entry
\* for r itself and for exactly the descendants of r none of whose components
\* below r matches a glob of X
C24_RootAndUnmatchedDescendants ==
    UserScanDone =>
       Emitted = {scanned.root}
                 \cup {q \in DOMAIN fs : /\ Below(q, scanned.root)
                                         /\ fs[q] # "absent"
                                         /\ ~Pruned(q, scanned.root, scanned.exclude)}

ExampleTree ==
    /\ << NameR, NameN, NameX >> \in DOMAIN fs
    /\ fs[<< NameR >>] = "dir"
    /\ fs[<< NameR, NameV >>] = "file"
    /\ fs[<< NameR, NameH >>] = "dir"
    /\ fs[<< NameR, NameH, NameS >>] = "file"
    /\ fs[<< NameR, NameN >>] = "dir"
    /\ fs[<< NameR, NameN, NameX >>] = "file"

\* C24, amended: among the entries the walk reaches and whose metadata can be
\* read, scanning a user root r emits r itself when r has a final component
\* (even when that component matches X) and exactly the descendants none of
\* whose components below r matches a glob of X, so that an excluded
\* directory is neither emitted nor descended into; for /r/visible.txt,
\* /r/.hidden, /r/node_modules/x with X = [".*", "node_modules"] the emitted
\* paths are /r and /r/visible.txt
C24_ReadableRootAndUnmatchedDescendants ==
    UserScanDone =>
       /\ Emitted = {q \in DOMAIN fs : /\ Reached(q, scanned.root)
                                       /\ MetadataOk(fs[q])
                                       /\ Len(q) > 0
                                       /\ ~Pruned(q, scanned.root, scanned.exclude)}
       /\ (/\ ExampleTree
           /\ scanned.root = << NameR >>
           /\ scanned.exclude = << GlobDotStar, NameN >>)
             => Emitted = { << NameR >>, << NameR, NameV >> }

C24_Witness ==
    /\ UserScanDone
    /\ ExampleTree
    /\ scanned.root = << NameR >>
    /\ scanned.exclude = << GlobDotStar, NameN >>
    /\ Emitted = { << NameR >>, << NameR, NameV >> }

\* a root whose own name matches X was scanned and emitted
RootMatchingEmitted ==
    /\ UserScanDone
    /\ scanned.root = << NameR, NameH >>
    /\ MatchesAny(scanned.exclude, NameH)
    /\ scanned.root \in Emitted

\* the walk comes to q: q is reached and nothing from r down to q is excluded
Walked(q) == Reached(q, scanned.root) /\ ~Pruned(q, scanned.root, scanned.exclude)

\* permission denied on a directory, or a directory that vanished
Inaccessible(q) == fs[q] \in {"denied", "gone"}

\* C25 as stated: a scan returns; an inaccessible entry adds one to
\* errors_encountered and is skipped, an entry whose metadata cannot be read
\* is skipped alone, a root that does not exist contributes nothing, and
\* every other accessible, non-excluded entry is emitted
C25_InaccessibleSkipped ==
    scanned.op = "scan_directory" =>
       /\ fs[scanned.root] = "absent" => scanned.items = {}
       /\ errors_encountered =
             Cardinality({q \in DOMAIN fs : Walked(q) /\ Inaccessible(q)})
       /\ \A q \in DOMAIN fs :
             Walked(q) =>
                (q \in Emitted <=> /\ ~Inaccessible(q)
                                   /\ MetadataOk(fs[q])
                                   /\ Len(q) > 0)

\* C25, amended: a scan returns; a directory that cannot be listed adds one
\* to errors_encountered and what is below it is skipped, the directory
\* itself being emitted when its metadata can be read; an entry whose
\* metadata cannot be read is skipped alone; a root that does not exist
\* contributes nothing; every other entry the walk comes to that has a final
\* component is emitted
C25_UnlistableCountedContentsSkipped ==
    scanned.op = "scan_directory" =>
       /\ fs[scanned.root] = "absent" => scanned.items = {}
       /\ errors_encountered =
             Cardinality({q \in DOMAIN fs : Walked(q) /\ Inaccessible(q)})
       /\ \A q \in DOMAIN fs :
             /\ Walked(q) => (q \in Emitted <=> MetadataOk(fs[q]) /\ Len(q) > 0)
             /\ ~Walked(q) => q \notin Emitted

\* a directory that cannot be listed and a file without metadata beside
\* entries that are emitted
C25_Witness ==
    /\ scanned.op = "scan_directory"
    /\ scanned.root = << NameR >>
    /\ scanned.exclude = << >>
    /\ << NameR, NameN, NameX >> \in DOMAIN fs
    /\ fs[<< NameR, NameV >>] = "unreadable"
    /\ fs[<< NameR, NameH >>] = "denied"
    /\ fs[<< NameR, NameH, NameS >>] = "file"
    /\ fs[<< NameR, NameN, NameX >>] = "file"
    /\ errors_encountered = 1
    /\ Emitted = { << NameR >>, << NameR, NameH >>, << NameR, NameN >>,
                   << NameR, NameN, NameX >> }

\* a scan of a root that does not exist
AbsentRootScanned ==
    /\ scanned.op = "scan_directory"
    /\ fs[scanned.root] = "absent"
    /\ scanned.items = {}

AppScanDone == scanned.op = "scan_application_directory" /\ fs[scanned.root] # "absent"

Basename(q) == q[Len(q)]

ExtensionListed(q) == Extension(Basename(q)) \in {<< Str_desktop >>, << Str_AppImage >>}

----------------------------------------------------------------------------
(* The watcher (watcher.rs): the notify callback and the receiving end.    *)
(* A raw notification is [kind, paths] with kind the EventKind of notify:  *)
(* "Create", "ModifyData", "ModifyMetadata", "ModifyName" (a rename, with  *)
(* both paths when the platform pairs them), "Remove", "Access", "Other".  *)
(* wlast.exclude holds config.indexing.exclude_patterns of the watcher.    *)

\* path.components() of an absolute path: the root directory, then the names
Components(path) == << << "/" >> >> \o path

\* str::starts_with
StartsWith(str, prefix) ==
    Len(str) >= Len(prefix) /\ SubSeq(str, 1, Len(prefix)) = prefix

\* variant: glob matching only
ShouldExcludeByGlob(path, exclude_patterns) ==
    \E i \in 1..Len(exclude_patterns), j \in 1..Len(Components(path)) :
       /\ PatternNew(exclude_patterns[i])
       /\ GlobMatches(exclude_patterns[i], LossyStr(Components(path)[j]))

\* variant: only the final component is tested, as the scanner does
ShouldExcludeByName(path, exclude_patterns) ==
    /\ Len(path) > 0
    /\ MatchesAny(exclude_patterns, path[Len(path)])

\* FilesystemWatcher::should_exclude
should_exclude(path, exclude_patterns) ==
    \E i \in 1..Len(exclude_patterns), j \in 1..Len(Components(path)) :
       \/ /\ PatternNew(exclude_patterns[i])
          /\ GlobMatches(exclude_patterns[i], LossyStr(Components(path)[j]))
       \/ /\ StartsWith(exclude_patterns[i], GlobDotStar)
          /\ StartsWith(LossyStr(Components(path)[j]), << "." >>)

\* FilesystemWatcher::convert_event: None (<< >>) or Some(event)
convert_event(event, exclude_patterns) ==
    IF \E i \in 1..Len(event.paths) : should_exclude(event.paths[i], exclude_patterns)
    THEN << >>
    ELSE IF Len(event.paths) = 0 THEN << >>
    ELSE IF event.kind = "Create" THEN << Created(event.paths[1]) >>
    ELSE IF event.kind \in {"ModifyData", "ModifyMetadata", "ModifyName"}
         THEN << Modified(event.paths[1]) >>
    ELSE IF event.kind = "Remove" THEN << Deleted(event.paths[1]) >>
    ELSE << >>

\* the callback given to notify::recommended_watcher, on Ok(event)
Notify(event) ==
    /\ arrived < MaxEvents
    /\ arrived' = arrived + 1
    /\ LET res == convert_event(event, wlast.exclude)
       IN  /\ wlast' = [op |-> "notify", raw |-> event, exclude |-> wlast.exclude,
                        res |-> res, channel |-> channel]
           /\ channel' = IF res = << >> THEN channel
                         ELSE Append(channel, [res[1] EXCEPT !.n = arrived + 1])
    /\ UNCHANGED << storeVars, connVars, procVars, openVars, scanned, running, mainpc,
                    dlast, committed >>

\* FilesystemWatcher::try_recv_event
try_recv_event ==
    /\ wlast' = [op |-> "try_recv_event", raw |-> NoNotification.raw,
                 exclude |-> wlast.exclude,
                 res |-> IF channel = << >> THEN << >> ELSE << Head(channel) >>,
                 channel |-> channel]
    /\ channel' = IF channel = << >> THEN channel ELSE Tail(channel)
    /\ UNCHANGED << storeVars, connVars, procVars, openVars, scanned, running, mainpc,
                    dlast, arrived, committed >>

----------------------------------------------------------------------------
(* Specification of the watcher *)

PathV == << NameR, NameV >>
PathHidden == << NameR, NameH, NameS >>
PathNm == << NameR, NameN, NameX >>

GlobDotStarX == << ".", "*", "x" >>

WatchExcludes == { << >>, << GlobDotStar, NameN >>, << GlobDotStarX >>, << GlobUnclosed >> }

RawNotifications ==
    { [kind |-> k, paths |-> << p >>] :
         k \in {"Create", "ModifyData", "Remove", "Access"},
         p \in {PathV, PathHidden, PathNm} }
    \cup { [kind |-> "ModifyName", paths |-> << PathV, PathA >>],
           [kind |-> "ModifyName", paths |-> << PathA, PathNm >>],
           [kind |-> "ModifyMetadata", paths |-> << PathV >>],
           [kind |-> "Create", paths |-> << >>],
           [kind |-> "Other", paths |-> << PathV >>] }

InitWatcher ==
    /\ StoreEmpty
    /\ foreign_keys = FALSE
    /\ ConnIdle
    /\ schema = CurrentSchema
    /\ osteps = << >>
    /\ olast = NoOpen
    /\ schema0 = [schema |-> CurrentSchema, files |-> {}]
    /\ DaemonNew
    /\ scanned = NoScan
    /\ \E X \in WatchExcludes : wlast = [NoNotification EXCEPT !.exclude = X]
    /\ pending_events = {}
    /\ operation_queue = << >>
    /\ now = 0
    /\ fs = << >>
    /\ plast = NoProcCall
    /\ ppre = [pending_events |-> {}, operation_queue |-> << >>, burst |-> << >>]
    /\ burst = << >>

NextWatcher ==
    \/ \E event \in RawNotifications : Notify(event)
    \/ try_recv_event

SpecWatcher == InitWatcher /\ [][NextWatcher]_vars

----------------------------------------------------------------------------
(* Properties of the watcher *)

\* some component of some path of the notification matches a glob of X
GlobHit(event, X) ==
    \E i \in 1..Len(event.paths) :
       \E j \in 1..Len(Components(event.paths[i])) :
          MatchesAny(X, Components(event.paths[i])[j])

\* some pattern of X begins with .* and some component begins with a dot
DotHit(event, X) ==
    /\ \E k \in 1..Len(X) : Len(X[k]) >= 2 /\ X[k][1] = "." /\ X[k][2] = "*"
    /\ \E i \in 1..Len(event.paths) :
          \E j \in 1..Len(event.paths[i]) :
             Len(event.paths[i][j]) > 0 /\ event.paths[i][j][1] = "."

Notified == wlast.op = "notify"

Passed == Notified /\ ~GlobHit(wlast.raw, wlast.exclude) /\ ~DotHit(wlast.raw, wlast.exclude)

\* C27: a raw notification becomes at most one event: a create Created(path),
\* a data or metadata modification Modified(path), a removal Deleted(path),
\* a rename carrying both paths Moved{from, to}; access notifications and
\* notifications of unknown kind become no event
C27_EventOfNotification ==
    (Passed /\ Len(wlast.raw.paths) > 0) =>
       LET event == wlast.raw
       IN  wlast.res =
              IF event.kind = "Create" THEN << Created(event.paths[1]) >>
              ELSE IF event.kind \in {"ModifyData", "ModifyMetadata"}
                   THEN << Modified(event.paths[1]) >>
              ELSE IF event.kind = "Remove" THEN << Deleted(event.paths[1]) >>
              ELSE IF event.kind = "ModifyName" /\ Len(event.paths) = 2
                   THEN << Moved(event.paths[1], event.paths[2]) >>
              ELSE << >>

\* the same, renames left aside
EventOfNotificationButRename ==
    (Passed /\ Len(wlast.raw.paths) > 0 /\ wlast.raw.kind # "ModifyName") =>
       LET event == wlast.raw
       IN  wlast.res =
              IF event.kind = "Create" THEN << Created(event.paths[1]) >>
              ELSE IF event.kind \in {"ModifyData", "ModifyMetadata"}
                   THEN << Modified(event.paths[1]) >>
              ELSE IF event.kind = "Remove" THEN << Deleted(event.paths[1]) >>
              ELSE << >>

\* a rename with both paths has become Modified(from), and never Moved
RenameBecomesModified ==
    /\ Passed
    /\ wlast.raw = [kind |-> "ModifyName", paths |-> << PathV, PathA >>]
    /\ wlast.res = << Modified(PathV) >>

NeverMoved == \A i \in 1..Len(channel) : channel[i].kind # "Moved"

Reaches == {"Create", "ModifyData", "ModifyMetadata", "ModifyName", "Remove"}

\* the channel holds events in the order sent, and the one received last was
\* sent before all that wait
InOrderSent ==
    /\ \A i, j \in 1..Len(channel) : i < j => channel[i].n < channel[j].n
    /\ (wlast.op = "try_recv_event" /\ wlast.res # << >>) =>
          /\ wlast.res[1] = wlast.channel[1]
          /\ \A i \in 1..Len(channel) : wlast.res[1].n < channel[i].n
    /\ (wlast.op = "try_recv_event" /\ wlast.res = << >>) => wlast.channel = << >>

\* C28 as stated: a notification is dropped at the watcher iff one of its
\* paths has a component that matches an exclude glob; every other create,
\* modify or remove notification reaches the channel; events are received in
\* the order sent
C28_DroppedIffGlobMatches ==
    /\ Notified =>
          /\ GlobHit(wlast.raw, wlast.exclude) => channel = wlast.channel
          /\ (~GlobHit(wlast.raw, wlast.exclude) /\ wlast.raw.kind \in Reaches) =>
                Len(channel) = Len(wlast.channel) + 1
    /\ InOrderSent

\* C28, amended: a notification is dropped at the watcher if one of its paths
\* has a component that matches an exclude glob, or that begins with a dot
\* while some exclude pattern begins with .*; every other create, modify or
\* remove notification that carries a path reaches the channel; events are
\* received in the order sent
C28_DroppedIffGlobOrDot ==
    /\ Notified =>
          /\ (GlobHit(wlast.raw, wlast.exclude) \/ DotHit(wlast.raw, wlast.exclude))
                => channel = wlast.channel
          /\ (Passed /\ wlast.raw.kind \in Reaches /\ Len(wlast.raw.paths) > 0) =>
                /\ Len(channel) = Len(wlast.channel) + 1
                /\ SubSeq(channel, 1, Len(wlast.channel)) = wlast.channel
                /\ channel[Len(channel)].path = wlast.raw.paths[1]
    /\ InOrderSent

\* a notification under a hidden directory is dropped by a pattern that
\* begins with .* and matches no component, after another has got through
C28_Witness ==
    /\ Notified
    /\ wlast.exclude = << GlobDotStarX >>
    /\ wlast.raw = [kind |-> "Create", paths |-> << PathHidden >>]
    /\ ~GlobHit(wlast.raw, wlast.exclude)
    /\ Len(wlast.channel) = 1
    /\ channel = wlast.channel

\* the first of two waiting events has been received
ReceivedFirstOfTwo ==
    /\ wlast.op = "try_recv_event"
    /\ Len(wlast.channel) = 2
    /\ wlast.res = << wlast.channel[1] >>
    /\ channel = << wlast.channel[2] >>

----------------------------------------------------------------------------
(* Specification of the debounce map with two keys: events for PathA and   *)
(* PathB, moves between them, and a queue that is not empty                *)

KeyPaths == {PathA, PathB}

KeyEvents ==
    { Created(PathA), Deleted(PathA), Modified(PathB),
      Moved(PathB, PathA), Moved(PathA, PathB) }

InitKeys ==
    /\ StoreEmpty
    /\ foreign_keys = FALSE
    /\ ConnIdle
    /\ StoreOpened
    /\ DaemonNew
    /\ pending_events = {}
    /\ operation_queue \in {<< >>, << [kind |-> "Delete", path |-> PathB, ev |-> 0] >>}
    /\ now = 0
    /\ fs = [p \in KeyPaths |-> "file"]
    /\ plast = NoProcCall
    /\ ppre = [pending_events |-> {}, operation_queue |-> << >>,
               burst |-> [p \in KeyPaths |-> NoBurst]]
    /\ burst = [p \in KeyPaths |-> NoBurst]

NextKeys ==
    \/ \E e \in KeyEvents : add_event(e)
    \/ process_pending
    \/ Advance

SpecKeys == InitKeys /\ [][NextKeys]_vars

\* the key path of the event as the design gives it
PrincipalPath(e) == IF e.kind \in {"Created", "Modified", "Deleted"} THEN e.path ELSE e.to

\* C31: add_event replaces only the pending entry under the event's key path
\* (its own path for Created, Modified and Deleted, the destination for
\* Moved); every other pending entry, the one under the source of a Moved
\* event included, and the operation queue stay as they were
C31_AddEventFrame ==
    plast.op = "add_event" =>
       LET k == PrincipalPath(plast.arg)
       IN  /\ {x \in pending_events : x.key # k}
                 = {x \in ppre.pending_events : x.key # k}
           /\ {x \in pending_events : x.key = k}
                 = {[key |-> k, event |-> plast.arg, timestamp |-> now]}
           /\ operation_queue = ppre.operation_queue

\* a Moved event has replaced the entry under its destination while the
\* entry under its source and the queued operation stayed
C31_Witness ==
    /\ plast.op = "add_event"
    /\ plast.arg = Moved(PathB, PathA)
    /\ \E x \in ppre.pending_events : x.key = PathA /\ x.event # plast.arg
    /\ \E x \in ppre.pending_events : x.key = PathB /\ x \in pending_events
    /\ Len(operation_queue) = 1

----------------------------------------------------------------------------
(* Properties of the start of the daemon *)

Initializing == mainpc \in {"load", "handler", "new", "scan", "index", "watch"}

\* a step of initialize that goes on applies one batch of the scan
ChunkApplied ==
    (mainpc = "index" /\ mainpc' = "index" /\ dlast' # dlast)
       => /\ dlast.queue = dlast'.ops \o dlast'.queue
          /\ committed' = committed \o dlast'.ops

\* the paths are registered once no batch of the scan is left, and from then
\* on nothing is scanned
RegisteredLast ==
    /\ (mainpc' = "watch" /\ mainpc # "watch") => (mainpc = "index" /\ dlast.queue = << >>)
    /\ mainpc' = "top" /\ Initializing => mainpc = "watch"
    /\ ~Initializing => (~Initializing' /\ dlast'.step # "scan")

\* a change of the filesystem makes by itself no event and no operation and
\* leaves the store alone
ChangeUnseen ==
    fs' # fs => /\ Store' = Store
                /\ channel' = channel
                /\ pending_events' = pending_events
                /\ operation_queue' = operation_queue

\* C32: the watches are registered only after every batch of the initial scan
\* has been applied and nothing is scanned afterwards; a change made after
\* the scan and before the registration produces no event and no operation,
\* and the store keeps what the scan found for that path
C32_WatchAfterScan ==
    /\ [](Initializing => /\ channel = << >>
                          /\ arrived = 0
                          /\ pending_events = {}
                          /\ operation_queue = << >>)
    /\ [](arrived = 0 => \A i \in 1..Len(committed) :
                            committed[i].kind = "Add" /\ committed[i].ev = 0)
    /\ [][ChunkApplied /\ RegisteredLast /\ ChangeUnseen]_vars

\* /a/a was removed before the watches were registered: the daemon is in its
\* loop, no event has arrived, and the store still has the record of the scan
C32_Witness ==
    /\ mainpc = "select"
    /\ arrived = 0
    /\ fs[PathA] = "absent"
    /\ dlast.step = "watch_paths"
    /\ HasPath(Store, to_string_lossy(PathA))

----------------------------------------------------------------------------
(* Specification of a stream of events: the events for PathA never stop,   *)
(* each comes less than the debounce after the one before, from time 0     *)
(* on; events for PathB come and stop as they like                         *)

StreamEvents == { Modified(PathA), Deleted(PathA), Created(PathB), Modified(PathB) }

\* time passes, but never the debounce since the last event for PathA
StreamAdvance ==
    /\ burst[PathA].len > 0
    /\ now + HalfStep - burst[PathA].at < debounce_duration
    /\ AdvanceBy(HalfStep)

NextStream ==
    \/ \E e \in StreamEvents : add_event(e)
    \/ process_pending
    \/ StreamAdvance

SpecStream == InitKeys /\ [][NextStream]_vars

\* C33: every add_event for p restarts p's window: an entry carries the time
\* of the last event for its path; the first process_pending made at least
\* debounce_duration after that event removes the entry, and a call made
\* before leaves it and emits nothing for p, so that while events for p keep
\* arriving less than debounce_duration apart no operation for p is emitted,
\* however long the stream lasts
C33_WindowRestarts ==
    /\ \A x \in pending_events :
          /\ burst[x.key].len > 0
          /\ x.timestamp = burst[x.key].at
          /\ x.event = burst[x.key].event
    /\ plast.op = "add_event" =>
          \E x \in pending_events : x.key = EventKey(plast.arg) /\ x.timestamp = now
    /\ plast.op = "process_pending" =>
          /\ \A x \in ppre.pending_events :
                IF now - x.timestamp >= debounce_duration
                THEN \A y \in pending_events : y.key # x.key
                ELSE x \in pending_events /\ OpsFor(plast.res, x.key) = {}
          /\ OpsFor(plast.res, PathA) = {}
          /\ now > 0 => \E x \in pending_events : x.key = PathA

\* the stream for PathA has lasted twice the debounce and its entry is still
\* held back, while the call has emitted the operation for PathB, whose
\* events had stopped
C33_Witness ==
    /\ plast.op = "process_pending"
    /\ now >= 2 * debounce_duration
    /\ ppre.burst[PathA].tight
    /\ \E x \in pending_events : x.key = PathA
    /\ \E x \in ppre.pending_events : x.key = PathB
    /\ \A x \in pending_events : x.key # PathB
    /\ Len(plast.res) = 1
    /\ OpKey(plast.res[1]) = PathB

----------------------------------------------------------------------------
(* Properties of the path of an operation through the daemon *)

\* how often the operation made from event n occurs in the sequence q
Occurrences(q, n) == Cardinality({i \in 1..Len(q) : q[i].ev = n})

\* the events that have arrived and are still waiting to be converted
Waiting == {channel[i].n : i \in 1..Len(channel)} \cup {x.event.n : x \in pending_events}

----------------------------------------------------------------------------
(* Specification of scanner and watcher side by side: one tree, one list   *)
(* of exclude patterns for both, roots scanned and notifications received  *)

PlainTrees == {f \in UserTrees : \A q \in DOMAIN f : f[q] \in {"absent", "file", "dir"}}

GlobAnyOne == << "?" >>

EdgeExcludes == { << >>, << GlobDotStar, NameN >>, << GlobDotStarX >>, << GlobAnyOne >> }

InitEdges ==
    /\ StoreEmpty
    /\ foreign_keys = FALSE
    /\ ConnIdle
    /\ schema = CurrentSchema
    /\ osteps = << >>
    /\ olast = NoOpen
    /\ schema0 = [schema |-> CurrentSchema, files |-> {}]
    /\ DaemonNew
    /\ scanned = NoScan
    /\ \E X \in EdgeExcludes : wlast = [NoNotification EXCEPT !.exclude = X]
    /\ pending_events = {}
    /\ operation_queue = << >>
    /\ now = 0
    /\ fs \in PlainTrees
    /\ plast = NoProcCall
    /\ ppre = [pending_events |-> {}, operation_queue |-> << >>, burst |-> << >>]
    /\ burst = << >>

NextEdges ==
    \/ \E root \in {<< NameR >>, << NameR, NameH >>} : scan_directory(root, wlast.exclude)
    \/ scan_application_directory(<< NameR, NameH >>)
    \/ \E p \in {PathV, PathHidden, PathNm} : Notify([kind |-> "Create", paths |-> << p >>])

SpecEdges == InitEdges /\ [][NextEdges]_vars

\* a root was scanned and a notification for a path q at or under it came in
Compared ==
    /\ Notified
    /\ scanned.op # "none"
    /\ fs[scanned.root] # "absent"
    /\ Len(wlast.raw.paths) = 1
    /\ wlast.raw.paths[1] = scanned.root \/ Below(wlast.raw.paths[1], scanned.root)

\* the scanner came by q and left it out because of the exclude list
ScannerExcludes(q) ==
    /\ scanned.op = "scan_directory"
    /\ scanned.exclude = wlast.exclude
    /\ Reached(q, scanned.root)
    /\ MetadataOk(fs[q])
    /\ q \notin Emitted

\* the path of the root itself has a component that matches an exclude glob
RootMatches ==
    \E j \in 1..Len(Components(scanned.root)) :
       MatchesAny(wlast.exclude, Components(scanned.root)[j])

\* C35: whatever the scanner excludes under a root, the watcher drops the
\* events of; the watcher also drops events for paths the scanner emits:
\* those of every path under a root whose own path has a component that
\* matches an exclude glob
C35_WatcherStricter ==
    Compared =>
       /\ ScannerExcludes(wlast.raw.paths[1]) => wlast.res = << >>
       /\ RootMatches => wlast.res = << >>

\* the hidden directory /r/.h was scanned as an application root and its
\* file emitted; with the patterns .* and nm the watcher drops the event for
\* that file
C35_Witness ==
    /\ Compared
    /\ scanned.op = "scan_application_directory"
    /\ scanned.root = << NameR, NameH >>
    /\ wlast.exclude = << GlobDotStar, NameN >>
    /\ wlast.raw.paths = << PathHidden >>
    /\ PathHidden \in Emitted
    /\ RootMatches
    /\ wlast.res = << >>

\* a path the scanner excludes as a user root's descendant, dropped as well
BothExclude ==
    /\ Compared
    /\ ScannerExcludes(PathNm)
    /\ wlast.raw.paths = << PathNm >>
    /\ wlast.res = << >>

\* the watcher drops an event for a path that a user root's scan emitted
\* although no component of the root matches a glob
DroppedByDotRule ==
    /\ Compared
    /\ scanned.op = "scan_directory"
    /\ scanned.exclude = wlast.exclude
    /\ ~RootMatches
    /\ wlast.raw.paths[1] \in Emitted
    /\ wlast.res = << >>

\* shutdown hands the queue to the store and touches neither the debounce
\* map nor the channel
ShutdownSubmitsQueueOnly ==
    (mainpc = "left" /\ mainpc' = "done") =>
       /\ dlast'.ops = operation_queue
       /\ operation_queue' = << >>
       /\ pending_events' = pending_events
       /\ channel' = channel
       /\ committed' = IF dlast'.failed THEN committed ELSE committed \o operation_queue
       /\ dlast'.failed => Store' = Store

\* once shutdown has returned nothing is received, converted or committed
NothingAfterExit ==
    exited => /\ pending_events' = pending_events
              /\ channel' = channel
              /\ operation_queue' = operation_queue
              /\ committed' = committed
              /\ Store' = Store

\* C36: shutdown submits only the operations already in the queue; events
\* still in the debounce map or unread in the channel when the loop exits are
\* never converted and never reach the store, and the operations of a final
\* batch that fails are lost as well
C36_ShutdownLosesWaiting ==
    /\ [](exited => /\ dlast.step = "shutdown"
                    /\ operation_queue = << >>
                    /\ \A n \in Waiting : Occurrences(committed, n) = 0
                    /\ \A i \in 1..Len(dlast.ops) :
                          Occurrences(committed, dlast.ops[i].ev)
                             = IF dlast.failed THEN 0 ELSE 1)
    /\ [][ShutdownSubmitsQueueOnly /\ NothingAfterExit]_vars

\* the daemon has stopped with an event in the debounce map, an event in the
\* channel and a final batch that failed: none of the three is in the store
C36_Witness ==
    /\ exited
    /\ pending_events # {}
    /\ channel # << >>
    /\ dlast.step = "shutdown"
    /\ dlast.failed
    /\ Len(dlast.ops) = 1
    /\ committed = << >>

----------------------------------------------------------------------------
(* The reindex command (main.rs), with a reader on another connection.     *)
(* mainpc is the position of the command: "clear", "rescan", "reindex",    *)
(* "complete" or "failed"; pre holds the store as the command found it.    *)

\* db.connection().execute("DELETE FROM files", [])?: one statement in
\* autocommit mode; fails stands for a store that is busy or cannot be written
ReindexClear ==
    /\ mainpc = "clear"
    /\ pre' = Store
    /\ \E fails \in BOOLEAN :
          /\ IF fails THEN UNCHANGED storeVars
             ELSE SetStore(SqlDeleteAll(Store, foreign_keys).db)
          /\ mainpc' = IF fails THEN "failed" ELSE "rescan"
          /\ DaemonStep("reindex_clear", << >>, fails)
    /\ UNCHANGED << foreign_keys, otherLock, otherWrote, batchVars, last, qres, procVars,
                    openVars, edgeVars, channel, running, arrived, committed >>

\* let entries = scanner.scan(); the entries wait in dlast.queue as Add
\* operations
ReindexScan ==
    /\ mainpc = "rescan"
    /\ mainpc' = "reindex"
    /\ \E entries \in ScanOutcomes :
          dlast' = [step |-> "reindex_scan", ops |-> << >>,
                    queue |-> [i \in 1..Len(entries) |->
                                 [kind |-> "Add", entry |-> entries[i], ev |-> 0]],
                    committed |-> Len(committed), failed |-> FALSE]
    /\ UNCHANGED << storeVars, connVars, procVars, openVars, edgeVars, channel, running, arrived,
                    committed >>

\* for chunk in entries.chunks(batch_size) { db.execute_batch(&operations)? }
ReindexChunk ==
    /\ mainpc = "reindex"
    /\ LET chunk == SubSeq(dlast.queue, 1, Min(batch_size, Len(dlast.queue)))
           rest == SubSeq(dlast.queue, Len(chunk) + 1, Len(dlast.queue))
       IN  IF chunk = << >>
           THEN /\ mainpc' = "complete"
                /\ UNCHANGED << storeVars, committed, dlast >>
           ELSE \E fails \in BOOLEAN :
                   /\ ExecuteBatch(chunk, fails)
                   /\ mainpc' = IF BatchFailed(chunk, fails) THEN "failed" ELSE "reindex"
                   /\ dlast' = [step |-> "reindex_chunk", ops |-> chunk, queue |-> rest,
                                committed |-> Len(committed),
                                failed |-> BatchFailed(chunk, fails)]
    /\ UNCHANGED << connVars, procVars, openVars, edgeVars, channel, running, arrived >>

\* the stores the command may find: empty, or filled by a daemon
ReindexStores ==
    { EmptyDb,
      ApplyAll(EmptyDb, << Add(EntryA), Add(EntryB) >>, FALSE).db,
      ApplyAll(EmptyDb, << Add(EntryB), Update(EntryB) >>, FALSE).db }

InitReindex ==
    /\ \E db \in ReindexStores : files = db.files /\ usage = db.usage /\ seq = db.seq
    /\ foreign_keys \in BOOLEAN
    /\ ConnIdle
    /\ ProcessorNew
    /\ StoreOpened
    /\ channel = << >>
    /\ running = TRUE
    /\ mainpc = "clear"
    /\ dlast = NoStep
    /\ arrived = 0
    /\ committed = << >>

NextReindex ==
    \/ ReindexClear
    \/ ReindexScan
    \/ ReindexChunk
    \/ \E q \in {<< >>, << "a" >>}, limit \in {1, 2} : query_files(q, limit)

SpecReindex == InitReindex /\ [][NextReindex]_vars

\* the truncation has been committed
Cleared == mainpc \in {"rescan", "reindex", "complete"}
              \/ (mainpc = "failed" /\ dlast.step = "reindex_chunk")

\* the steps of the command commit one by one: the truncation alone, then
\* each batch alone, and a batch that fails ends the command where it is
CommitsOneByOne ==
    /\ (mainpc = "clear" /\ mainpc' = "rescan") => (files' = {} /\ seq' = seq)
    /\ (mainpc = "rescan" /\ mainpc' = "reindex") => Store' = Store
    /\ (mainpc = "reindex" /\ dlast' # dlast) =>
          /\ Len(dlast'.ops) <= batch_size
          /\ IF dlast'.failed
             THEN mainpc' = "failed" /\ Store' = Store
             ELSE mainpc' = "reindex" /\ committed' = committed \o dlast'.ops
    /\ mainpc \in {"failed", "complete"} => (mainpc' = mainpc /\ Store' = Store)

\* C37: reindex is not one atomic unit: the truncation is committed on its
\* own before the scan and each batch of re-added entries separately, and a
\* batch that fails ends the command with what was committed so far; every
\* record gets a new id, so that no launch count from before is attached to
\* a record after the truncation
C37_ReindexStepwise ==
    /\ [](Cleared => /\ \A r \in files : r.id > pre.seq
                     /\ \A r \in files : \A o \in pre.files : r.id > o.id
                     /\ \A r \in files : \A u \in pre.usage \cup usage : u.file_id # r.id)
    /\ [][CommitsOneByOne]_vars

\* the command has ended on its second batch: of two records found and two
\* scanned the index holds one, under an id that no record had before
C37_Witness ==
    /\ mainpc = "failed"
    /\ dlast.step = "reindex_chunk"
    /\ Cardinality(pre.files) = 2
    /\ Len(dlast.queue) = 0
    /\ Cardinality(files) = 1
    /\ \A r \in files : r.id = pre.seq + 1

\* a reader has found the index empty between the truncation and the first batch
ReaderSawEmpty ==
    /\ Cleared
    /\ pre.files # {}
    /\ qres.made
    /\ qres.query = << >>
    /\ qres.rows = << >>
    /\ mainpc = "complete"
    /\ files # {}

----------------------------------------------------------------------------
(* Usage rows and the two queries that join them (database.rs).            *)

\* the results get_most_used_files may return: files JOIN usage_stats,
\* ORDER BY u.launch_count DESC, u.last_launched DESC LIMIT ?; rows that tie
\* come in any order
MostUsedResults(db, limit) ==
    LET M == {[f |-> x[1], launch_count |-> x[2].launch_count,
               last_launched |-> x[2].last_launched] :
                x \in {y \in db.files \X db.usage : y[1].id = y[2].file_id}}
        n == Min(limit, Cardinality(M))
        MoreUsed(a, b) == \/ a.launch_count > b.launch_count
                          \/ /\ a.launch_count = b.launch_count
                             /\ a.last_launched > b.last_launched
        picks == {s \in [1..n -> M] :
                    /\ \A i, j \in 1..n : i < j => s[i] # s[j] /\ ~MoreUsed(s[j], s[i])
                    /\ \A m \in M : (\A i \in 1..n : s[i] # m) =>
                                    \A i \in 1..n : ~MoreUsed(m, s[i])}
    IN  {[i \in 1..n |-> RowToEntry(s[i])] : s \in picks}

\* Database::get_most_used_files(limit): a read; the rows are kept in qres
get_most_used_files(limit) ==
    /\ CanCall
    /\ ~qres.made
    /\ \E rows \in MostUsedResults(Store, limit) :
          qres' = [query |-> << >>, limit |-> limit, rows |-> rows, made |-> TRUE]
    /\ last' = [op |-> "get_most_used_files", arg |-> limit, res |-> "Ok", val |-> 0]
    /\ UNCHANGED << nonStoreVars, storeVars, foreign_keys, otherLock, otherWrote, batchVars,
                    pre >>

NextUsage ==
    \/ \E e \in Entries : insert_file(e)
    \/ \E p \in Paths : delete_file(p)
    \/ \E p \in Paths, t \in {7, 8} : record_file_launch(p, t)
    \/ \E q \in {<< >>, << "a" >>}, limit \in {2, 3} : query_files(q, limit)
    \/ \E limit \in {2, 3} : get_most_used_files(limit)

SpecUsage == Init /\ [][NextUsage]_vars

MostUsedAnswered ==
    /\ Cardinality(files) = 2
    /\ last.op = "get_most_used_files"
    /\ qres.made

====
